---------------------------- MODULE Spec2Model ----------------------------
(***************************************************************************)
(* The ledger core of the budget tracker (src/lib/database.ts): one SQLite *)
(* connection shared by every exported function, the categories, balances  *)
(* and transactions tables, and the async handlers that work on them.      *)
(* Every awaited storage statement of a handler is one step of a process,  *)
(* so that handlers issued concurrently interleave statement by statement  *)
(* on the single connection, as they do under the JS event loop.           *)
(*                                                                         *)
(* Amounts and balances are integers (the code uses IEEE doubles; rounding *)
(* of non-integral sums is outside this model).  Strings that the code     *)
(* trims or lower-cases are sequences of one-character strings.            *)
(***************************************************************************)
EXTENDS Integers, Sequences, FiniteSets, TLC

VARIABLES
    db,      \* the tables as the connection sees them: cats, seq, bal, txs
    snap,    \* <<>> in autocommit mode, <<d>> while a SQL transaction begun at state d is open
    uuids,   \* number of uuidv4() values drawn so far
    now,     \* Date.now()
    pc,      \* pc[p]: position of process p inside its handler
    call,    \* call[p]: the exported function p runs and its arguments
    loc,     \* loc[p]: the handler's local variables
    ret,     \* ret[p]: the value the handler resolved to
    pre,     \* pre[p]: the tables when the call was issued
    seen,    \* seen[p]: the processes whose call was in progress when p's read statement ran
    failed,  \* failed[p]: where the first storage statement of p's call failed, "" if none has
    scen,    \* how far the caller has come in the worked scenario (Script)
    boot     \* the module variables db and initializationPromise, and how far performInitialization has come

vars == <<db, snap, uuids, now, pc, call, loc, ret, pre, seen, failed, scen, boot>>

----------------------------------------------------------------------------
(* Bounds of the model *)

MaxTx == 2        \* addTransaction calls per run (one uuid each)
MaxNewCats == 1   \* category rows added after seeding
MaxClock == 1     \* ticks of Date.now()

Procs == {1, 2}

----------------------------------------------------------------------------
(* Optional values: null / undefined is <<>>, a value v is <<v>> *)

None == <<>>
Some(v) == <<v>>

Methods == {"gpay", "cash"}

----------------------------------------------------------------------------
(* Strings *)

LowerChar(c) ==
    CASE c = "A" -> "a" [] c = "B" -> "b" [] c = "C" -> "c" [] c = "D" -> "d"
      [] c = "E" -> "e" [] c = "F" -> "f" [] c = "G" -> "g" [] c = "H" -> "h"
      [] c = "I" -> "i" [] c = "J" -> "j" [] c = "K" -> "k" [] c = "L" -> "l"
      [] c = "M" -> "m" [] c = "N" -> "n" [] c = "O" -> "o" [] c = "P" -> "p"
      [] c = "Q" -> "q" [] c = "R" -> "r" [] c = "S" -> "s" [] c = "T" -> "t"
      [] c = "U" -> "u" [] c = "V" -> "v" [] c = "W" -> "w" [] c = "X" -> "x"
      [] c = "Y" -> "y" [] c = "Z" -> "z" [] OTHER -> c

toLowerCase(s) == [i \in 1..Len(s) |-> LowerChar(s[i])]

RECURSIVE trimStart(_)
trimStart(s) == IF s # <<>> /\ Head(s) = " " THEN trimStart(Tail(s)) ELSE s

RECURSIVE trimEnd(_)
trimEnd(s) ==
    IF s # <<>> /\ s[Len(s)] = " " THEN trimEnd(SubSeq(s, 1, Len(s) - 1)) ELSE s

trim(s) == trimEnd(trimStart(s))

StrGain == <<"g", "a", "i", "n">>
StrAll == <<"a", "l", "l">>
StrUncategorizedLower ==
    <<"u", "n", "c", "a", "t", "e", "g", "o", "r", "i", "z", "e", "d">>

\* categoryDetails.name.toLowerCase() === 'gain'
IsGainName(name) == toLowerCase(name) = StrGain

\* the names the category screen refuses to edit or delete
IsReservedName(name) ==
    toLowerCase(name) = StrUncategorizedLower \/ toLowerCase(name) = StrGain

DEFAULT_CATEGORIES ==
    << [name |-> <<"U","n","c","a","t","e","g","o","r","i","z","e","d">>, limit |-> None],
       [name |-> <<"G","a","i","n">>, limit |-> None],
       [name |-> <<"G","r","o","c","e","r","i","e","s">>, limit |-> None],
       [name |-> <<"T","r","a","n","s","p","o","r","t">>, limit |-> None],
       [name |-> <<"B","i","l","l","s">>, limit |-> None],
       [name |-> <<"E","n","t","e","r","t","a","i","n","m","e","n","t">>, limit |-> None],
       [name |-> <<"O","t","h","e","r"," ","E","x","p","e","n","s","e">>, limit |-> None] >>

\* ids that AUTOINCREMENT gives the seeded rows
UncategorizedId == 1
GainId == 2
GroceriesId == 3


----------------------------------------------------------------------------
(* The tables and the SQL statements the handlers issue.  A statement      *)
(* yields [ok, db, changes]: ok = FALSE is a constraint error (the         *)
(* statement throws and changes nothing).                                  *)

\* the tables once performInitialization has committed its seeding
InitDb ==
    [ cats |-> { [id |-> i, name |-> DEFAULT_CATEGORIES[i].name,
                  limit |-> DEFAULT_CATEGORIES[i].limit]
                 : i \in 1..Len(DEFAULT_CATEGORIES) },
      seq  |-> Len(DEFAULT_CATEGORIES),
      bal  |-> [m \in Methods |-> 0],
      txs  |-> {} ]

\* getFirstAsync: the first row of a result set, or null
First(rows) == IF rows = {} THEN None ELSE Some(CHOOSE r \in rows : TRUE)

CatById(d, id) == First({c \in d.cats : c.id = id})
TxById(d, id) == First({t \in d.txs : t.id = id})

SqlOk(d, n) == [ok |-> TRUE, db |-> d, changes |-> n]
SqlError(d) == [ok |-> FALSE, db |-> d, changes |-> 0]

\* FOREIGN KEY (categoryId) REFERENCES categories(id), checked on the child row
FkParentExists(d, categoryId) == \E c \in d.cats : c.id = categoryId

\* ... ON DELETE RESTRICT, checked on the parent row
FkRestrictsMutOff(d, categoryId) == FALSE
FkRestricts(d, categoryId) == \E t \in d.txs : t.categoryId = categoryId

\* UPDATE balances SET amount = ? WHERE type = ?
SqlUpdateBalance(d, type, amount) ==
    IF type \in DOMAIN d.bal
    THEN SqlOk([d EXCEPT !.bal[type] = amount], 1)
    ELSE SqlOk(d, 0)

\* INSERT INTO transactions (id, timestamp, paymentMethod, categoryId, amount, reason)
SqlInsertTransaction(d, row) ==
    IF \/ \E t \in d.txs : t.id = row.id
       \/ row.paymentMethod \notin Methods
       \/ ~FkParentExists(d, row.categoryId)
    THEN SqlError(d)
    ELSE SqlOk([d EXCEPT !.txs = @ \cup {row}], 1)

\* DELETE FROM transactions WHERE id = ?
SqlDeleteTransaction(d, id) ==
    LET hit == {t \in d.txs : t.id = id}
    IN  SqlOk([d EXCEPT !.txs = @ \ hit], Cardinality(hit))

\* UPDATE transactions SET amount, reason, paymentMethod, categoryId, timestamp WHERE id = ?
SqlUpdateTransaction(d, row) ==
    LET hit == {t \in d.txs : t.id = row.id}
    IN  IF hit = {} THEN SqlOk(d, 0)
        ELSE IF row.paymentMethod \notin Methods \/ ~FkParentExists(d, row.categoryId)
        THEN SqlError(d)
        ELSE SqlOk([d EXCEPT !.txs = (@ \ hit) \cup {row}], 1)

SqlInsertCategoryMutNoUnique(d, name, limit) ==
    SqlOk([d EXCEPT !.cats = @ \cup {[id |-> d.seq + 1, name |-> name, limit |-> limit]},
                    !.seq = @ + 1], 1)

\* INSERT INTO categories (name, monthlyLimit): name TEXT UNIQUE NOT NULL,
\* id INTEGER PRIMARY KEY AUTOINCREMENT
SqlInsertCategory(d, name, limit) ==
    IF \E c \in d.cats : c.name = name
    THEN SqlError(d)
    ELSE SqlOk([d EXCEPT !.cats = @ \cup {[id |-> d.seq + 1, name |-> name, limit |-> limit]},
                         !.seq = @ + 1], 1)

\* UPDATE categories SET name = ?, monthlyLimit = ? WHERE id = ?
SqlUpdateCategory(d, id, name, limit) ==
    LET hit == {c \in d.cats : c.id = id}
    IN  IF hit = {} THEN SqlOk(d, 0)
        ELSE IF \E c \in d.cats \ hit : c.name = name
        THEN SqlError(d)
        ELSE SqlOk([d EXCEPT !.cats = (@ \ hit) \cup {[id |-> id, name |-> name, limit |-> limit]}], 1)

\* DELETE FROM categories WHERE id = ?
SqlDeleteCategory(d, id) ==
    LET hit == {c \in d.cats : c.id = id}
    IN  IF hit = {} THEN SqlOk(d, 0)
        ELSE IF FkRestricts(d, id)
        THEN SqlError(d)
        ELSE SqlOk([d EXCEPT !.cats = @ \ hit], 1)

----------------------------------------------------------------------------
(* The connection.  Every statement of every handler runs on the one       *)
(* connection opened by performInitialization: while a transaction is open *)
(* a statement of any handler becomes part of it, and BEGIN inside an open *)
(* transaction, or COMMIT / ROLLBACK without one, is an error.             *)
(*                                                                         *)
(* A statement is run with an outcome f: "ok" (SQLite decides), "err" (the *)
(* statement fails and changes nothing) or "abort" (it fails and SQLite    *)
(* rolls the open transaction back on its own, as for SQLITE_FULL or       *)
(* SQLITE_IOERR).  The result is [ok, db, snap, changes].                  *)

InTxn == snap # None

Conn(ok, d, s, n) == [ok |-> ok, db |-> d, snap |-> s, changes |-> n]

Aborted == Conn(FALSE, IF InTxn THEN snap[1] ELSE db, None, 0)

Run(f, r) ==
    CASE f = "ok" -> Conn(r.ok, r.db, snap, r.changes)
      [] f = "err" -> Conn(FALSE, db, snap, 0)
      [] OTHER -> Aborted

\* a SELECT: it changes nothing
Read(f) ==
    CASE f = "ok" -> Conn(TRUE, db, snap, 0)
      [] f = "err" -> Conn(FALSE, db, snap, 0)
      [] OTHER -> Aborted

\* execAsync('BEGIN TRANSACTION;')
ExecBegin(f) ==
    IF f = "ok" /\ ~InTxn THEN Conn(TRUE, db, Some(db), 0)
    ELSE IF f = "abort" THEN Aborted
    ELSE Conn(FALSE, db, snap, 0)

\* execAsync('COMMIT;'): a COMMIT that fails either leaves the transaction
\* open ("err") or has rolled it back ("abort")
ExecCommit(f) ==
    IF f = "ok" /\ InTxn THEN Conn(TRUE, db, None, 0)
    ELSE IF f = "abort" THEN Aborted
    ELSE Conn(FALSE, db, snap, 0)

\* execAsync('ROLLBACK;'): restores the tables as of BEGIN; an error when
\* no transaction is open
ExecRollbackMutNoop == Conn(FALSE, db, None, 0)
ExecRollbackMutKeepsOpen == Conn(FALSE, db, snap, 0)
ExecRollback ==
    IF InTxn THEN Conn(TRUE, snap[1], None, 0) ELSE Conn(FALSE, db, snap, 0)

\* a statement of p's handler has run with result c
Apply(p, c) ==
    /\ db' = c.db
    /\ snap' = c.snap
    /\ failed' = [failed EXCEPT ![p] = IF ~c.ok /\ @ = "" THEN pc[p] ELSE @]

\* the ROLLBACK of a catch block: its own failure is only logged
Settle(c) ==
    /\ db' = c.db
    /\ snap' = c.snap
    /\ UNCHANGED failed


----------------------------------------------------------------------------
(* Processes: a process is one pending call of an exported function.       *)

NoCall == [op |-> "none"]
NoLoc ==
    [newId |-> 0, timestamp |-> 0, isGain |-> FALSE, wasGain |-> FALSE,
     cur |-> 0, old |-> None, categories |-> {}, transactionsToAdd |-> <<>>,
     gainCategoryId |-> None]
NoRet == [ok |-> FALSE, val |-> None]

\* the value a handler resolves to: null and false are Failure
Failure == [ok |-> FALSE, val |-> None]
Success(v) == [ok |-> TRUE, val |-> v]

Goto(p, l) == pc' = [pc EXCEPT ![p] = l]

Issue(p, c, l) ==
    /\ pc[p] = "idle"
    /\ call' = [call EXCEPT ![p] = c]
    /\ loc' = [loc EXCEPT ![p] = l]
    /\ pre' = [pre EXCEPT ![p] = <<db, now>>]
    /\ UNCHANGED <<db, snap, now, ret, seen, failed, scen, boot>>

Finish(p, r) ==
    /\ pc' = [pc EXCEPT ![p] = "done"]
    /\ ret' = [ret EXCEPT ![p] = r]

\* data.reason ?? null
ReasonNullishMutDrop(r) == None
ReasonNullish(r) == r
\* data.reason || null
ReasonFalsy(r) == IF r # None /\ r[1] = <<>> THEN None ELSE r

\* the outcomes a statement is run with
Faults == {"ok", "err", "abort"}
NoFaults == {"ok"}

----------------------------------------------------------------------------
(* addTransaction *)

\* const newBalance = isGain ? (currentBalance + data.amount) : (currentBalance - data.amount)
AddNewBalanceMutSign(isGain, currentBalance, amount) == currentBalance - amount
AddNewBalanceMutClamp(isGain, currentBalance, amount) ==
    IF isGain THEN currentBalance + amount
    ELSE IF currentBalance - amount < 0 THEN 0 ELSE currentBalance - amount
AddNewBalance(isGain, currentBalance, amount) ==
    IF isGain THEN currentBalance + amount ELSE currentBalance - amount

AddTransactionCall(p, D) ==
    /\ uuids < MaxTx
    /\ \E d \in D :
         Issue(p, [op |-> "addTransaction", data |-> d],
               [NoLoc EXCEPT !.newId = uuids + 1, !.timestamp = now])
    /\ uuids' = uuids + 1
    /\ Goto(p, "add_begin")

AddBegin(p, F) ==
    /\ pc[p] = "add_begin"
    /\ \E f \in F :
         LET c == ExecBegin(f)
         IN  /\ Apply(p, c)
             /\ Goto(p, IF c.ok THEN "add_selectCategory" ELSE "add_catch")
    /\ UNCHANGED <<uuids, now, call, loc, ret, pre, seen, scen, boot>>

AddSelectCategory(p, F) ==
    /\ pc[p] = "add_selectCategory"
    /\ \E f \in F :
         LET c == Read(f)
             categoryDetails == CatById(db, call[p].data.categoryId)
         IN  /\ Apply(p, c)
             /\ IF c.ok /\ categoryDetails # None
                THEN /\ loc' = [loc EXCEPT ![p].isGain = IsGainName(categoryDetails[1].name)]
                     /\ Goto(p, "add_selectBalance")
                ELSE /\ loc' = loc
                     /\ Goto(p, "add_catch")
    /\ UNCHANGED <<uuids, now, call, ret, pre, seen, scen, boot>>

AddSelectBalance(p, F) ==
    /\ pc[p] = "add_selectBalance"
    /\ \E f \in F :
         LET c == Read(f)
         IN  /\ Apply(p, c)
             /\ IF c.ok
                THEN /\ loc' = [loc EXCEPT ![p].cur = db.bal[call[p].data.paymentMethod]]
                     /\ Goto(p, "add_updateBalance")
                ELSE /\ loc' = loc
                     /\ Goto(p, "add_catch")
    /\ UNCHANGED <<uuids, now, call, ret, pre, seen, scen, boot>>

AddUpdateBalance(p, F) ==
    /\ pc[p] = "add_updateBalance"
    /\ \E f \in F :
         LET d == call[p].data
             newBalance == AddNewBalance(loc[p].isGain, loc[p].cur, d.amount)
             c == Run(f, SqlUpdateBalance(db, d.paymentMethod, newBalance))
         IN  /\ Apply(p, c)
             /\ Goto(p, IF c.ok /\ c.changes > 0 THEN "add_insert" ELSE "add_catch")
    /\ UNCHANGED <<uuids, now, call, loc, ret, pre, seen, scen, boot>>

AddRow(p) ==
    [id |-> loc[p].newId, timestamp |-> loc[p].timestamp,
     paymentMethod |-> call[p].data.paymentMethod,
     categoryId |-> call[p].data.categoryId,
     amount |-> call[p].data.amount,
     reason |-> ReasonNullish(call[p].data.reason)]

AddInsert(p, F) ==
    /\ pc[p] = "add_insert"
    /\ \E f \in F :
         LET c == Run(f, SqlInsertTransaction(db, AddRow(p)))
         IN  /\ Apply(p, c)
             /\ Goto(p, IF c.ok THEN "add_commit" ELSE "add_catch")
    /\ UNCHANGED <<uuids, now, call, loc, ret, pre, seen, scen, boot>>

AddCommit(p, F) ==
    /\ pc[p] = "add_commit"
    /\ \E f \in F :
         LET c == ExecCommit(f)
         IN  /\ Apply(p, c)
             /\ IF c.ok
                THEN Finish(p, Success(Some(AddRow(p))))
                ELSE Goto(p, "add_catch") /\ ret' = ret
    /\ UNCHANGED <<uuids, now, call, loc, pre, seen, scen, boot>>

\* catch: try { ROLLBACK } catch { log }; return null
AddCatch(p) ==
    /\ pc[p] = "add_catch"
    /\ Settle(ExecRollback)
    /\ Finish(p, Failure)
    /\ UNCHANGED <<uuids, now, call, loc, pre, seen, scen, boot>>

----------------------------------------------------------------------------
(* deleteTransaction *)

\* const newBalance = isGain ? (currentBalance - transactionAmount) : (currentBalance + transactionAmount)
DeleteNewBalanceMutNoRefund(isGain, currentBalance, amount) == currentBalance - amount
DeleteNewBalance(isGain, currentBalance, amount) ==
    IF isGain THEN currentBalance - amount ELSE currentBalance + amount

DeleteTransactionCall(p, Ids) ==
    /\ \E id \in Ids : Issue(p, [op |-> "deleteTransaction", id |-> id], NoLoc)
    /\ Goto(p, "del_begin")
    /\ UNCHANGED uuids

DelBegin(p, F) ==
    /\ pc[p] = "del_begin"
    /\ \E f \in F :
         LET c == ExecBegin(f)
         IN  /\ Apply(p, c)
             /\ Goto(p, IF c.ok THEN "del_select" ELSE "del_catch")
    /\ UNCHANGED <<uuids, now, call, loc, ret, pre, seen, scen, boot>>

\* SELECT t.amount, t.paymentMethod, t.categoryId, c.name as categoryName
\* FROM transactions t JOIN categories c ON t.categoryId = c.id WHERE t.id = ?
DelJoin(d, id) ==
    First({ [amount |-> t.amount, paymentMethod |-> t.paymentMethod,
             categoryId |-> t.categoryId, categoryName |-> c.name]
            : <<t, c>> \in {tc \in d.txs \X d.cats :
                              tc[1].id = id /\ tc[1].categoryId = tc[2].id} })

DelSelect(p, F) ==
    /\ pc[p] = "del_select"
    /\ \E f \in F :
         LET c == Read(f)
             transactionToDelete == DelJoin(db, call[p].id)
         IN  /\ Apply(p, c)
             /\ IF ~c.ok
                THEN loc' = loc /\ Goto(p, "del_catch")
                ELSE IF transactionToDelete = None
                THEN loc' = loc /\ Goto(p, "del_notFound")
                ELSE /\ loc' = [loc EXCEPT ![p].old = transactionToDelete]
                     /\ Goto(p, "del_delete")
    /\ UNCHANGED <<uuids, now, call, ret, pre, seen, scen, boot>>

\* if (!transactionToDelete) { await ROLLBACK; return false; }
DelNotFoundMutReturnsTrue(p) ==
    /\ pc[p] = "del_notFound"
    /\ Apply(p, ExecRollback)
    /\ Finish(p, Success(None))
    /\ UNCHANGED <<uuids, now, call, loc, pre, seen, scen, boot>>
DelNotFound(p) ==
    /\ pc[p] = "del_notFound"
    /\ LET c == ExecRollback
       IN  /\ Apply(p, c)
           /\ IF c.ok
              THEN Finish(p, Failure)
              ELSE Goto(p, "del_catch") /\ ret' = ret
    /\ UNCHANGED <<uuids, now, call, loc, pre, seen, scen, boot>>

DelDelete(p, F) ==
    /\ pc[p] = "del_delete"
    /\ \E f \in F :
         LET c == Run(f, SqlDeleteTransaction(db, call[p].id))
         IN  /\ Apply(p, c)
             /\ Goto(p, IF c.ok /\ c.changes > 0 THEN "del_selectBalance" ELSE "del_catch")
    /\ UNCHANGED <<uuids, now, call, loc, ret, pre, seen, scen, boot>>

DelSelectBalance(p, F) ==
    /\ pc[p] = "del_selectBalance"
    /\ \E f \in F :
         LET c == Read(f)
         IN  /\ Apply(p, c)
             /\ IF c.ok
                THEN /\ loc' = [loc EXCEPT ![p].cur = db.bal[loc[p].old[1].paymentMethod]]
                     /\ Goto(p, "del_updateBalance")
                ELSE /\ loc' = loc
                     /\ Goto(p, "del_catch")
    /\ UNCHANGED <<uuids, now, call, ret, pre, seen, scen, boot>>

DelUpdateBalance(p, F) ==
    /\ pc[p] = "del_updateBalance"
    /\ \E f \in F :
         LET t == loc[p].old[1]
             isGain == IsGainName(t.categoryName)
             newBalance == DeleteNewBalance(isGain, loc[p].cur, t.amount)
             c == Run(f, SqlUpdateBalance(db, t.paymentMethod, newBalance))
         IN  /\ Apply(p, c)
             /\ Goto(p, IF c.ok /\ c.changes > 0 THEN "del_commit" ELSE "del_catch")
    /\ UNCHANGED <<uuids, now, call, loc, ret, pre, seen, scen, boot>>

DelCommit(p, F) ==
    /\ pc[p] = "del_commit"
    /\ \E f \in F :
         LET c == ExecCommit(f)
         IN  /\ Apply(p, c)
             /\ IF c.ok
                THEN Finish(p, Success(None))
                ELSE Goto(p, "del_catch") /\ ret' = ret
    /\ UNCHANGED <<uuids, now, call, loc, pre, seen, scen, boot>>

DelCatch(p) ==
    /\ pc[p] = "del_catch"
    /\ Settle(ExecRollback)
    /\ Finish(p, Failure)
    /\ UNCHANGED <<uuids, now, call, loc, pre, seen, scen, boot>>


----------------------------------------------------------------------------
(* updateTransaction *)

\* const revertAmount = wasGain ? -oldTransaction.amount : oldTransaction.amount
RevertAmountMutSign(wasGain, oldAmount) == oldAmount
RevertAmount(wasGain, oldAmount) == IF wasGain THEN -oldAmount ELSE oldAmount

\* const applyAmount = isGain ? data.amount : -data.amount
ApplyAmount(isGain, amount) == IF isGain THEN amount ELSE -amount

\* balanceAdjustment = newEffect - oldEffect
BalanceAdjustmentMutNoRevert(wasGain, isGain, oldAmount, amount) ==
    IF isGain THEN amount ELSE -amount
BalanceAdjustment(wasGain, isGain, oldAmount, amount) ==
    LET oldEffect == IF wasGain THEN oldAmount ELSE -oldAmount
        newEffect == IF isGain THEN amount ELSE -amount
    IN  newEffect - oldEffect

UpdateTransactionCall(p, Ids, D) ==
    /\ \E id \in Ids, d \in D :
         Issue(p, [op |-> "updateTransaction", id |-> id, data |-> d], NoLoc)
    /\ Goto(p, "upd_begin")
    /\ UNCHANGED uuids

UpdBegin(p, F) ==
    /\ pc[p] = "upd_begin"
    /\ \E f \in F :
         LET c == ExecBegin(f)
         IN  /\ Apply(p, c)
             /\ Goto(p, IF c.ok THEN "upd_selectOld" ELSE "upd_catch")
    /\ UNCHANGED <<uuids, now, call, loc, ret, pre, seen, scen, boot>>

\* SELECT amount, paymentMethod, categoryId FROM transactions WHERE id = ?
UpdSelectOld(p, F) ==
    /\ pc[p] = "upd_selectOld"
    /\ \E f \in F :
         LET c == Read(f)
             oldTransaction == TxById(db, call[p].id)
         IN  /\ Apply(p, c)
             /\ IF c.ok /\ oldTransaction # None
                THEN /\ loc' = [loc EXCEPT ![p].old = oldTransaction]
                     /\ Goto(p, "upd_selectOldCategory")
                ELSE /\ loc' = loc
                     /\ Goto(p, "upd_catch")
    /\ UNCHANGED <<uuids, now, call, ret, pre, seen, scen, boot>>

\* Promise.all, first SELECT: wasGain = oldCategory?.name.toLowerCase() === 'gain'
UpdSelectOldCategory(p, F) ==
    /\ pc[p] = "upd_selectOldCategory"
    /\ \E f \in F :
         LET c == Read(f)
             oldCategory == CatById(db, loc[p].old[1].categoryId)
         IN  /\ Apply(p, c)
             /\ IF c.ok
                THEN /\ loc' = [loc EXCEPT ![p].wasGain =
                                  oldCategory # None /\ IsGainName(oldCategory[1].name)]
                     /\ Goto(p, "upd_selectNewCategory")
                ELSE /\ loc' = loc
                     /\ Goto(p, "upd_catch")
    /\ UNCHANGED <<uuids, now, call, ret, pre, seen, scen, boot>>

\* Promise.all, second SELECT: if (!newCategory) throw
UpdSelectNewCategory(p, F) ==
    /\ pc[p] = "upd_selectNewCategory"
    /\ \E f \in F :
         LET c == Read(f)
             newCategory == CatById(db, call[p].data.categoryId)
         IN  /\ Apply(p, c)
             /\ IF c.ok /\ newCategory # None
                THEN /\ loc' = [loc EXCEPT ![p].isGain = IsGainName(newCategory[1].name)]
                     /\ Goto(p, IF loc[p].old[1].paymentMethod # call[p].data.paymentMethod
                                THEN "upd_selectOldBalance" ELSE "upd_selectBalance")
                ELSE /\ loc' = loc
                     /\ Goto(p, "upd_catch")
    /\ UNCHANGED <<uuids, now, call, ret, pre, seen, scen, boot>>

UpdReadBalance(p, F, at, type, next) ==
    /\ pc[p] = at
    /\ \E f \in F :
         LET c == Read(f)
         IN  /\ Apply(p, c)
             /\ IF c.ok
                THEN /\ loc' = [loc EXCEPT ![p].cur = db.bal[type]]
                     /\ Goto(p, next)
                ELSE /\ loc' = loc
                     /\ Goto(p, "upd_catch")
    /\ UNCHANGED <<uuids, now, call, ret, pre, seen, scen, boot>>

UpdWriteBalance(p, F, at, type, amount, next) ==
    /\ pc[p] = at
    /\ \E f \in F :
         LET c == Run(f, SqlUpdateBalance(db, type, amount))
         IN  /\ Apply(p, c)
             /\ Goto(p, IF c.ok THEN next ELSE "upd_catch")
    /\ UNCHANGED <<uuids, now, call, loc, ret, pre, seen, scen, boot>>

\* payment method changed: revert the old effect on the old method ...
UpdSelectOldBalance(p, F) ==
    UpdReadBalance(p, F, "upd_selectOldBalance", loc[p].old[1].paymentMethod, "upd_revertOld")

UpdRevertOld(p, F) ==
    UpdWriteBalance(p, F, "upd_revertOld", loc[p].old[1].paymentMethod,
                    loc[p].cur + RevertAmount(loc[p].wasGain, loc[p].old[1].amount),
                    "upd_selectNewBalance")

\* ... and apply the new effect to the new method
UpdSelectNewBalance(p, F) ==
    UpdReadBalance(p, F, "upd_selectNewBalance", call[p].data.paymentMethod, "upd_applyNew")

UpdApplyNew(p, F) ==
    UpdWriteBalance(p, F, "upd_applyNew", call[p].data.paymentMethod,
                    loc[p].cur + ApplyAmount(loc[p].isGain, call[p].data.amount),
                    "upd_updateRow")

\* payment method unchanged: one net adjustment
UpdSelectBalance(p, F) ==
    UpdReadBalance(p, F, "upd_selectBalance", call[p].data.paymentMethod, "upd_adjust")

UpdAdjust(p, F) ==
    UpdWriteBalance(p, F, "upd_adjust", call[p].data.paymentMethod,
                    loc[p].cur + BalanceAdjustment(loc[p].wasGain, loc[p].isGain,
                                                   loc[p].old[1].amount, call[p].data.amount),
                    "upd_updateRow")

UpdRowMutKeepsTimestamp(p) ==
    [id |-> call[p].id, timestamp |-> loc[p].old[1].timestamp,
     paymentMethod |-> call[p].data.paymentMethod,
     categoryId |-> call[p].data.categoryId,
     amount |-> call[p].data.amount,
     reason |-> ReasonFalsy(call[p].data.reason)]
UpdRow(p) ==
    [id |-> call[p].id, timestamp |-> now,
     paymentMethod |-> call[p].data.paymentMethod,
     categoryId |-> call[p].data.categoryId,
     amount |-> call[p].data.amount,
     reason |-> ReasonFalsy(call[p].data.reason)]

UpdUpdateRow(p, F) ==
    /\ pc[p] = "upd_updateRow"
    /\ \E f \in F :
         LET c == Run(f, SqlUpdateTransaction(db, UpdRow(p)))
         IN  /\ Apply(p, c)
             /\ Goto(p, IF c.ok /\ c.changes > 0 THEN "upd_commit" ELSE "upd_catch")
    /\ UNCHANGED <<uuids, now, call, loc, ret, pre, seen, scen, boot>>

UpdCommit(p, F) ==
    /\ pc[p] = "upd_commit"
    /\ \E f \in F :
         LET c == ExecCommit(f)
         IN  /\ Apply(p, c)
             /\ IF c.ok
                THEN Finish(p, Success(None))
                ELSE Goto(p, "upd_catch") /\ ret' = ret
    /\ UNCHANGED <<uuids, now, call, loc, pre, seen, scen, boot>>

UpdCatch(p) ==
    /\ pc[p] = "upd_catch"
    /\ Settle(ExecRollback)
    /\ Finish(p, Failure)
    /\ UNCHANGED <<uuids, now, call, loc, pre, seen, scen, boot>>

----------------------------------------------------------------------------
(* Balance functions *)

UpdateBalanceCall(p, Types, Amounts) ==
    /\ \E type \in Types, newAmount \in Amounts :
         Issue(p, [op |-> "updateBalance", type |-> type, newAmount |-> newAmount], NoLoc)
    /\ Goto(p, "ub_run")
    /\ UNCHANGED uuids

\* return (result.changes ?? 0) > 0; an error is rethrown
UpdateBalanceRun(p, F) ==
    /\ pc[p] = "ub_run"
    /\ \E f \in F :
         LET c == Run(f, SqlUpdateBalance(db, call[p].type, call[p].newAmount))
         IN  /\ Apply(p, c)
             /\ Finish(p, IF c.ok /\ c.changes > 0 THEN Success(None) ELSE Failure)
    /\ UNCHANGED <<uuids, now, call, loc, pre, seen, scen, boot>>

\* process p is in no handler
Quiet(p) == pc[p] \in {"idle", "done"}

\* processes inside a handler
InFlight == {q \in Procs : pc[q] \notin {"idle", "done"}}

GetAllBalancesCall(p) ==
    /\ Issue(p, [op |-> "getAllBalances"], NoLoc)
    /\ Goto(p, "gab_run")
    /\ UNCHANGED uuids

\* SELECT type, amount FROM balances, reduced to { gpay, cash }
GetAllBalancesRun(p, F) ==
    /\ pc[p] = "gab_run"
    /\ \E f \in F :
         LET c == Read(f)
         IN  /\ Apply(p, c)
             /\ Finish(p, IF c.ok THEN Success(Some(db.bal)) ELSE Failure)
    /\ seen' = [seen EXCEPT ![p] = InFlight \ {p}]
    /\ UNCHANGED <<uuids, now, call, loc, pre, scen, boot>>


----------------------------------------------------------------------------
(* getAllTransactions *)

\* milliseconds in a day of the model's clock
DayMs == 2

\* startOfDay.setHours(0, 0, 0, 0) and endOfDay.setHours(23, 59, 59, 999)
StartOfDay(date) == date - (date % DayMs)
EndOfDay(date) == StartOfDay(date) + DayMs - 1

\* text LIKE pattern: % is any run of characters, _ any one character,
\* letters compare without regard to case
RECURSIVE Like(_, _)
Like(text, pattern) ==
    IF pattern = <<>> THEN text = <<>>
    ELSE IF Head(pattern) = "%"
    THEN Like(text, Tail(pattern)) \/ (text # <<>> /\ Like(Tail(text), pattern))
    ELSE /\ text # <<>>
         /\ Head(pattern) = "_" \/ LowerChar(Head(pattern)) = LowerChar(Head(text))
         /\ Like(Tail(text), Tail(pattern))

\* days in a month of the model's calendar
MonthDays == 2

\* new Date(year, month - 1, 1).getTime(): time 0 is the start of January 1970
FirstDayOfMonth(year, month) == ((year - 1970) * 12 + (month - 1)) * MonthDays * DayMs
\* new Date(year, month, 0).getTime() + (24 * 60 * 60 * 1000 - 1)
EndOfMonth(year, month) == FirstDayOfMonth(year, month) + (MonthDays - 1) * DayMs + (DayMs - 1)

NoFilters ==
    [startDate |-> None, endDate |-> None, year |-> None, month |-> None,
     paymentMethod |-> None, category |-> None, searchText |-> None, limit |-> None]

\* t.* and c.name as categoryName FROM transactions t JOIN categories c
Joined(d) ==
    { [id |-> t.id, timestamp |-> t.timestamp, paymentMethod |-> t.paymentMethod,
       categoryId |-> t.categoryId, amount |-> t.amount, reason |-> t.reason,
       categoryName |-> c.name]
      : <<t, c>> \in {tc \in d.txs \X d.cats : tc[1].categoryId = tc[2].id} }

\* the WHERE clauses the filters add, ANDed
WhereClauses(r, filters) ==
    /\ filters.startDate # None => r.timestamp >= StartOfDay(filters.startDate[1])
    /\ filters.endDate # None => r.timestamp <= EndOfDay(filters.endDate[1])
    /\ (filters.endDate = None /\ filters.year # None /\ filters.year[1] # 0
          /\ filters.month # None /\ filters.month[1] # 0)
          => /\ r.timestamp >= FirstDayOfMonth(filters.year[1], filters.month[1])
             /\ r.timestamp <= EndOfMonth(filters.year[1], filters.month[1])
    /\ (filters.paymentMethod # None /\ filters.paymentMethod[1] # "all")
          => r.paymentMethod = filters.paymentMethod[1]
    /\ (filters.category # None /\ filters.category[1] # <<>> /\ filters.category[1] # StrAll)
          => r.categoryName = filters.category[1]
    /\ (filters.searchText # None /\ trim(filters.searchText[1]) # <<>>)
          => /\ r.reason # None
             /\ Like(r.reason[1], <<"%">> \o trim(filters.searchText[1]) \o <<"%">>)

\* ORDER BY t.timestamp DESC: the orders a result set may come in
RECURSIVE OrderByTimestampDesc(_)
OrderByTimestampDesc(rows) ==
    IF rows = {} THEN {<<>>}
    ELSE UNION { {<<r>> \o rest : rest \in OrderByTimestampDesc(rows \ {r})}
                 : r \in {x \in rows : \A y \in rows : y.timestamp <= x.timestamp} }

\* LIMIT ?, added when filters.limit && filters.limit > 0
Limit(rows, limit) ==
    IF limit # None /\ limit[1] > 0 /\ limit[1] < Len(rows)
    THEN SubSeq(rows, 1, limit[1])
    ELSE rows

GetAllTransactionsCall(p, Filters) ==
    /\ \E filters \in Filters : Issue(p, [op |-> "getAllTransactions", filters |-> filters], NoLoc)
    /\ Goto(p, "gat_run")
    /\ UNCHANGED uuids

\* results ?? []; an error yields []
GetAllTransactionsRun(p, F) ==
    /\ pc[p] = "gat_run"
    /\ \E f \in F :
         LET c == Read(f)
             matching == {r \in Joined(db) : WhereClauses(r, call[p].filters)}
         IN  /\ Apply(p, c)
             /\ IF c.ok
                THEN \E rows \in OrderByTimestampDesc(matching) :
                         Finish(p, Success(Some(Limit(rows, call[p].filters.limit))))
                ELSE Finish(p, Success(Some(<<>>)))
    /\ UNCHANGED <<uuids, now, call, loc, pre, seen, scen, boot>>

----------------------------------------------------------------------------
(* generateTestDataForMonth *)

GainAmountMin == 5000
GainAmountMax == 20000
ExpenseAmountMin == 50
ExpenseAmountMax == 3000

\* UPDATE balances SET amount = amount + ? WHERE type = ?
SqlAdjustBalance(d, type, delta) == SqlUpdateBalance(d, type, d.bal[type] + delta)

\* the characters of the names, in the order of their codes
Alphabet ==
    << " ", "(", ")",
       "A", "B", "C", "D", "E", "F", "G", "H", "I", "J", "K", "L", "M",
       "N", "O", "P", "Q", "R", "S", "T", "U", "V", "W", "X", "Y", "Z",
       "a", "b", "c", "d", "e", "f", "g", "h", "i", "j", "k", "l", "m",
       "n", "o", "p", "q", "r", "s", "t", "u", "v", "w", "x", "y", "z" >>

Code(c) == CHOOSE i \in 1..Len(Alphabet) : Alphabet[i] = c

\* ORDER BY name ASC: s sorts before t
RECURSIVE NameBefore(_, _)
NameBefore(s, t) ==
    IF t = <<>> THEN FALSE
    ELSE IF s = <<>> THEN TRUE
    ELSE IF Head(s) = Head(t) THEN NameBefore(Tail(s), Tail(t))
    ELSE Code(Head(s)) < Code(Head(t))

\* categories.find(c => c.name.toLowerCase() === 'gain'): the first in name order
GainCategory(categories) ==
    {c \in categories :
        /\ IsGainName(c.name)
        /\ \A o \in categories : IsGainName(o.name) => ~NameBefore(o.name, c.name)}

ExpenseCategories(categories) == {c \in categories : ~IsGainName(c.name)}

\* what one turn of the generating loop may push: a gain (only if a Gain
\* category was fetched) or an expense in any other fetched category.
\* G holds the values Math.random() is let to pick.
GeneratedItems(categories, G) ==
    { [paymentMethod |-> m, categoryId |-> c.id, amount |-> a, reason |-> r,
       timestamp |-> t]
      : m \in G.methods, c \in GainCategory(categories),
        a \in G.amounts \cap (GainAmountMin..GainAmountMax),
        r \in G.reasons, t \in G.timestamps }
    \cup
    { [paymentMethod |-> m, categoryId |-> c.id, amount |-> a, reason |-> r,
       timestamp |-> t]
      : m \in G.methods, c \in ExpenseCategories(categories),
        a \in G.amounts \cap (ExpenseAmountMin..ExpenseAmountMax),
        r \in G.reasons, t \in G.timestamps }

\* the lists that n turns of the loop may build; a turn that draws an
\* expense when there is no expense category pushes nothing
RECURSIVE ItemLists(_, _, _)
ItemLists(items, maySkip, n) ==
    IF n = 0 THEN {<<>>}
    ELSE LET shorter == ItemLists(items, maySkip, n - 1)
         IN  {Append(l, i) : l \in shorter, i \in items}
               \cup (IF maySkip THEN shorter ELSE {})

GenerateTestDataCall(p, Counts) ==
    /\ \E count \in Counts :
         /\ uuids + count <= MaxTx
         /\ Issue(p, [op |-> "generateTestDataForMonth", count |-> count], NoLoc)
    /\ Goto(p, "gen_categories")
    /\ UNCHANGED uuids

\* categories = await getAllCategories() (an error there yields []), then
\* the loop that fills transactionsToAdd
GenCategories(p, F, G) ==
    /\ pc[p] = "gen_categories"
    /\ \E f \in F :
         LET c == Read(f)
             categories == IF c.ok THEN db.cats ELSE {}
         IN  /\ Apply(p, c)
             /\ IF ExpenseCategories(categories) = {} /\ GainCategory(categories) = {}
                THEN loc' = loc /\ Finish(p, Failure)
                ELSE /\ \E l \in ItemLists(GeneratedItems(categories, G),
                                         ExpenseCategories(categories) = {},
                                         call[p].count) :
                          loc' = [loc EXCEPT ![p].categories = categories,
                                             ![p].transactionsToAdd = l]
                     /\ Goto(p, "gen_begin")
                     /\ ret' = ret
    /\ UNCHANGED <<uuids, now, call, pre, seen, scen, boot>>

GenNext(p) == IF Len(loc[p].transactionsToAdd) > 1 THEN "gen_item" ELSE "gen_commit"

\* withTransactionAsync: BEGIN
GenBegin(p, F) ==
    /\ pc[p] = "gen_begin"
    /\ \E f \in F :
         LET c == ExecBegin(f)
         IN  /\ Apply(p, c)
             /\ Goto(p, IF ~c.ok THEN "gen_rollback"
                        ELSE IF loc[p].transactionsToAdd = <<>> THEN "gen_commit"
                        ELSE "gen_item")
    /\ UNCHANGED <<uuids, now, call, loc, ret, pre, seen, scen, boot>>

GenIsGain(p) ==
    LET transData == Head(loc[p].transactionsToAdd)
    IN  \E c \in loc[p].categories : c.id = transData.categoryId /\ IsGainName(c.name)

SufficientMutAlways(balance, amount) == TRUE

\* the balance test an expense must pass
Sufficient(balance, amount) == balance >= amount

\* the first statement for the next item: the credit of a gain, or the
\* balance check of an expense, which skips the item when it fails
GenItem(p, F) ==
    /\ pc[p] = "gen_item"
    /\ \E f \in F :
         LET transData == Head(loc[p].transactionsToAdd)
             c == IF GenIsGain(p)
                  THEN Run(f, SqlAdjustBalance(db, transData.paymentMethod, transData.amount))
                  ELSE Read(f)
         IN  /\ Apply(p, c)
             /\ IF ~c.ok THEN loc' = loc /\ Goto(p, "gen_rollback")
                ELSE IF GenIsGain(p) THEN loc' = loc /\ Goto(p, "gen_insert")
                ELSE IF Sufficient(db.bal[transData.paymentMethod], transData.amount)
                THEN loc' = loc /\ Goto(p, "gen_debit")
                ELSE /\ loc' = [loc EXCEPT ![p].transactionsToAdd = Tail(@)]
                     /\ Goto(p, GenNext(p))
    /\ UNCHANGED <<uuids, now, call, ret, pre, seen, scen, boot>>

\* UPDATE balances SET amount = amount - ? WHERE type = ?
GenDebit(p, F) ==
    /\ pc[p] = "gen_debit"
    /\ \E f \in F :
         LET transData == Head(loc[p].transactionsToAdd)
             c == Run(f, SqlAdjustBalance(db, transData.paymentMethod, -transData.amount))
         IN  /\ Apply(p, c)
             /\ Goto(p, IF c.ok THEN "gen_insert" ELSE "gen_rollback")
    /\ UNCHANGED <<uuids, now, call, loc, ret, pre, seen, scen, boot>>

GenInsert(p, F) ==
    /\ pc[p] = "gen_insert"
    /\ \E f \in F :
         LET transData == Head(loc[p].transactionsToAdd)
             row == [id |-> uuids + 1, timestamp |-> transData.timestamp,
                     paymentMethod |-> transData.paymentMethod,
                     categoryId |-> transData.categoryId,
                     amount |-> transData.amount,
                     reason |-> ReasonFalsy(transData.reason)]
             c == Run(f, SqlInsertTransaction(db, row))
         IN  /\ Apply(p, c)
             /\ IF c.ok
                THEN /\ loc' = [loc EXCEPT ![p].transactionsToAdd = Tail(@)]
                     /\ Goto(p, GenNext(p))
                ELSE /\ loc' = loc
                     /\ Goto(p, "gen_rollback")
    /\ uuids' = uuids + 1
    /\ UNCHANGED <<now, call, ret, pre, seen, scen, boot>>

\* withTransactionAsync: COMMIT; return true
GenCommit(p, F) ==
    /\ pc[p] = "gen_commit"
    /\ \E f \in F :
         LET c == ExecCommit(f)
         IN  /\ Apply(p, c)
             /\ IF c.ok
                THEN Finish(p, Success(None))
                ELSE Goto(p, "gen_rollback") /\ ret' = ret
    /\ UNCHANGED <<uuids, now, call, loc, pre, seen, scen, boot>>

GenRollbackMutKeeps(p) ==
    /\ pc[p] = "gen_rollback"
    /\ Settle(Conn(TRUE, db, None, 0))
    /\ Finish(p, Failure)
    /\ UNCHANGED <<uuids, now, call, loc, pre, seen, scen, boot>>

\* withTransactionAsync: ROLLBACK and rethrow; the outer catch returns false
GenRollback(p) ==
    /\ pc[p] = "gen_rollback"
    /\ Settle(ExecRollback)
    /\ Finish(p, Failure)
    /\ UNCHANGED <<uuids, now, call, loc, pre, seen, scen, boot>>

GenSteps(p, F, G) ==
    \/ GenCategories(p, F, G) \/ GenBegin(p, F) \/ GenItem(p, F) \/ GenDebit(p, F)
    \/ GenInsert(p, F) \/ GenCommit(p, F) \/ GenRollback(p)

----------------------------------------------------------------------------
(* Category functions *)

ValidCategoryNameMutCaseSensitive(trimmedName) ==
    trimmedName # <<>> /\ trimmedName # StrAll

\* if (!trimmedName) throw; if (trimmedName.toLowerCase() === 'all') throw
ValidCategoryName(trimmedName) ==
    trimmedName # <<>> /\ toLowerCase(trimmedName) # StrAll

AddCategoryCall(p, Names, Limits) ==
    /\ db.seq < Len(DEFAULT_CATEGORIES) + MaxNewCats
    /\ \E name \in Names, limit \in Limits :
         Issue(p, [op |-> "addCategory", name |-> name, limit |-> limit], NoLoc)
    /\ Goto(p, "ac_insert")
    /\ UNCHANGED uuids

AddCategoryInsert(p, F) ==
    /\ pc[p] = "ac_insert"
    /\ \E f \in F :
         LET trimmedName == trim(call[p].name)
             valid == ValidCategoryName(trimmedName)
             c == IF valid
                  THEN Run(f, SqlInsertCategory(db, trimmedName, call[p].limit))
                  ELSE Conn(FALSE, db, snap, 0)
         IN  /\ IF valid THEN Apply(p, c) ELSE Settle(c)
             /\ IF c.ok
                THEN /\ loc' = [loc EXCEPT ![p].newId = c.db.seq]
                     /\ Goto(p, "ac_select")
                     /\ ret' = ret
                ELSE /\ loc' = loc
                     /\ Finish(p, Failure)
    /\ UNCHANGED <<uuids, now, call, pre, seen, scen, boot>>

\* SELECT * FROM categories WHERE id = lastInsertRowId; return newCategory ?? null
AddCategorySelect(p, F) ==
    /\ pc[p] = "ac_select"
    /\ \E f \in F :
         LET c == Read(f)
             newCategory == CatById(db, loc[p].newId)
         IN  /\ Apply(p, c)
             /\ Finish(p, IF c.ok /\ newCategory # None THEN Success(newCategory) ELSE Failure)
    /\ UNCHANGED <<uuids, now, call, loc, pre, seen, scen, boot>>

UpdateCategoryCall(p, Ids, Names, Limits) ==
    /\ \E id \in Ids, name \in Names, limit \in Limits :
         Issue(p, [op |-> "updateCategory", id |-> id, name |-> name, limit |-> limit], NoLoc)
    /\ Goto(p, "uc_run")
    /\ UNCHANGED uuids

UpdateCategoryRun(p, F) ==
    /\ pc[p] = "uc_run"
    /\ \E f \in F :
         LET trimmedName == trim(call[p].name)
             valid == ValidCategoryName(trimmedName)
             c == IF valid
                  THEN Run(f, SqlUpdateCategory(db, call[p].id, trimmedName, call[p].limit))
                  ELSE Conn(FALSE, db, snap, 0)
         IN  /\ IF valid THEN Apply(p, c) ELSE Settle(c)
             /\ Finish(p, IF c.ok /\ c.changes > 0 THEN Success(None) ELSE Failure)
    /\ UNCHANGED <<uuids, now, call, loc, pre, seen, scen, boot>>

DeleteCategoryCall(p, Ids) ==
    /\ \E id \in Ids : Issue(p, [op |-> "deleteCategory", id |-> id], NoLoc)
    /\ Goto(p, "dc_run")
    /\ UNCHANGED uuids

DeleteCategoryRun(p, F) ==
    /\ pc[p] = "dc_run"
    /\ \E f \in F :
         LET c == Run(f, SqlDeleteCategory(db, call[p].id))
         IN  /\ Apply(p, c)
             /\ Finish(p, IF c.ok /\ c.changes > 0 THEN Success(None) ELSE Failure)
    /\ UNCHANGED <<uuids, now, call, loc, pre, seen, scen, boot>>

----------------------------------------------------------------------------
(* The caller *)

NoReason == None

TxData(method, categoryId, amount) ==
    [paymentMethod |-> method, categoryId |-> categoryId, amount |-> amount,
     reason |-> NoReason]

\* the calls of the worked scenario, in order; uuids 1 and 2 are the ids
\* of the Groceries and the Gain transaction
Script ==
    << [op |-> "updateBalance", type |-> "gpay", newAmount |-> 1000],
       [op |-> "updateBalance", type |-> "cash", newAmount |-> 500],
       [op |-> "addTransaction", data |-> TxData("gpay", GroceriesId, 200)],
       [op |-> "addTransaction", data |-> TxData("gpay", GainId, 300)],
       [op |-> "deleteTransaction", id |-> 1],
       [op |-> "updateTransaction", id |-> 2, data |-> TxData("gpay", GainId, 100)] >>

ScriptOff == Len(Script) + 1

ScriptNext(c, r) ==
    IF scen < Len(Script) /\ Script[scen + 1].op = c.op /\ Script[scen + 1] = c /\ r.ok
    THEN scen + 1
    ELSE ScriptOff

\* the awaited call resolves: the caller takes the result
Return(p) ==
    /\ pc[p] = "done"
    /\ pc' = [pc EXCEPT ![p] = "idle"]
    /\ call' = [call EXCEPT ![p] = NoCall]
    /\ loc' = [loc EXCEPT ![p] = NoLoc]
    /\ ret' = [ret EXCEPT ![p] = NoRet]
    /\ pre' = [pre EXCEPT ![p] = None]
    /\ seen' = [seen EXCEPT ![p] = {}]
    /\ failed' = [failed EXCEPT ![p] = ""]
    /\ scen' = ScriptNext(call[p], ret[p])
    /\ UNCHANGED <<db, snap, uuids, now, boot>>

\* Date.now() advances, up to max
TickTo(max) ==
    /\ now < max
    /\ now' = now + 1
    /\ UNCHANGED <<db, snap, uuids, pc, call, loc, ret, pre, seen, failed, scen, boot>>

Tick == TickTo(MaxClock)

----------------------------------------------------------------------------
(* Database initialization: performInitialization, ensureDbInitialized and *)
(* getDbInstance.  boot.db is the module variable db ("null" or "open"),   *)
(* boot.initializationPromise the state of the shared promise, boot.at the *)
(* statement performInitialization is about to run, boot.seeded the number *)
(* of default categories inserted and boot.drops the number of times the   *)
(* tables have been dropped.                                               *)

\* initialization has completed: what every exported function waits for
Booted ==
    [db |-> "open", initializationPromise |-> "resolved", at |-> "done",
     seeded |-> Len(DEFAULT_CATEGORIES), drops |-> 1]

\* a process that has just started
Unbooted ==
    [db |-> "null", initializationPromise |-> "null", at |-> "none",
     seeded |-> 0, drops |-> 0]

\* the tables right after DROP TABLE and after CREATE TABLE: no row
EmptyTables == [cats |-> {}, seq |-> 0, bal |-> [m \in {} |-> 0], txs |-> {}]

\* INSERT OR IGNORE INTO categories
SqlInsertOrIgnoreCategory(d, name, limit) ==
    IF \E c \in d.cats : c.name = name THEN SqlOk(d, 0)
    ELSE SqlInsertCategory(d, name, limit)

\* the catch of performInitialization: db = null; throw error
InitFailed(b) == [b EXCEPT !.db = "null", !.initializationPromise = "rejected", !.at = "failed"]

\* performInitialization up to its first await: return db when it is set,
\* otherwise open the database (f is the outcome of openDatabaseSync) and
\* assign db
performInitialization(b, f) ==
    IF b.db = "open" THEN [b EXCEPT !.initializationPromise = "resolved"]
    ELSE IF f = "ok"
    THEN [b EXCEPT !.db = "open", !.initializationPromise = "pending", !.at = "init_drop"]
    ELSE InitFailed(b)

ensureDbInitializedMutRerun(b, f) ==
    [b EXCEPT !.db = "open", !.initializationPromise = "pending", !.at = "init_drop",
              !.seeded = 0]

\* if (!initializationPromise) initializationPromise = performInitialization()
ensureDbInitialized(b, f) ==
    IF b.initializationPromise = "null" THEN performInitialization(b, f) ELSE b

\* a statement of performInitialization outside its seeding transaction
InitStatement(at, F, c(_), next) ==
    /\ boot.at = at
    /\ \E f \in F :
         /\ Settle(c(f))
         /\ boot' = IF c(f).ok THEN next ELSE InitFailed(boot)
    /\ UNCHANGED <<uuids, now, pc, call, loc, ret, pre, seen, scen>>

\* DROP TABLE IF EXISTS transactions, categories, balances
InitDrop(F) ==
    LET Drop(f) == Run(f, SqlOk(EmptyTables, 0))
    IN  InitStatement("init_drop", F, Drop,
                      [boot EXCEPT !.at = "init_create", !.drops = @ + 1])

\* CREATE TABLE categories, balances, transactions
InitCreate(F) ==
    LET Create(f) == Run(f, SqlOk(EmptyTables, 0))
    IN  InitStatement("init_create", F, Create, [boot EXCEPT !.at = "init_begin"])

\* BEGIN TRANSACTION for the seeding
InitBegin(F) == InitStatement("init_begin", F, ExecBegin, [boot EXCEPT !.at = "init_seed"])

\* a statement inside the seeding transaction: an error leads to ROLLBACK
SeedStatement(at, F, c(_), next) ==
    /\ boot.at = at
    /\ \E f \in F :
         /\ Settle(c(f))
         /\ boot' = IF c(f).ok THEN next ELSE [boot EXCEPT !.at = "init_rollback"]
    /\ UNCHANGED <<uuids, now, pc, call, loc, ret, pre, seen, scen>>

\* for (const category of DEFAULT_CATEGORIES) INSERT OR IGNORE INTO categories
InitSeed(F) ==
    LET category == DEFAULT_CATEGORIES[boot.seeded + 1]
        Insert(f) == Run(f, SqlInsertOrIgnoreCategory(db, category.name, category.limit))
    IN  /\ boot.seeded < Len(DEFAULT_CATEGORIES)
        /\ SeedStatement("init_seed", F, Insert,
                         [boot EXCEPT !.seeded = @ + 1,
                                      !.at = IF boot.seeded + 1 = Len(DEFAULT_CATEGORIES)
                                             THEN "init_balances" ELSE "init_seed"])

\* INSERT OR IGNORE INTO balances (type, amount) VALUES ('gpay', 0.0), ('cash', 0.0)
InitBalances(F) ==
    LET Insert(f) ==
            Run(f, SqlOk([db EXCEPT !.bal = [m \in Methods |->
                                                IF m \in DOMAIN db.bal THEN db.bal[m] ELSE 0]], 2))
    IN  SeedStatement("init_balances", F, Insert, [boot EXCEPT !.at = "init_commit"])

\* COMMIT of the seeding
InitCommit(F) == SeedStatement("init_commit", F, ExecCommit, [boot EXCEPT !.at = "init_verify"])

\* ROLLBACK of the seeding, its own failure only logged; the error is
\* rethrown to the outer catch
InitRollback ==
    /\ boot.at = "init_rollback"
    /\ Settle(ExecRollback)
    /\ boot' = InitFailed(boot)
    /\ UNCHANGED <<uuids, now, pc, call, loc, ret, pre, seen, scen>>

\* the verification SELECT, whose error is only logged; return db
InitVerify(F) ==
    /\ boot.at = "init_verify"
    /\ \E f \in F : Settle(Read(f))
    /\ boot' = [boot EXCEPT !.initializationPromise = "resolved", !.at = "done"]
    /\ UNCHANGED <<uuids, now, pc, call, loc, ret, pre, seen, scen>>

InitSteps(F) ==
    \/ InitDrop(F) \/ InitCreate(F) \/ InitBegin(F) \/ InitSeed(F) \/ InitBalances(F)
    \/ InitCommit(F) \/ InitRollback \/ InitVerify(F)

\* addTransaction up to 'await getDbInstance()': newId and timestamp are
\* taken, and the first caller starts the initialization
AddTransactionAwaiting(p, D, F) ==
    /\ pc[p] = "idle"
    /\ uuids < MaxTx
    /\ \E d \in D, f \in F :
         /\ call' = [call EXCEPT ![p] = [op |-> "addTransaction", data |-> d]]
         /\ boot' = ensureDbInitialized(boot, f)
    /\ loc' = [loc EXCEPT ![p] = [NoLoc EXCEPT !.newId = uuids + 1, !.timestamp = now]]
    /\ pre' = [pre EXCEPT ![p] = <<db, now>>]
    /\ uuids' = uuids + 1
    /\ Goto(p, "getDbInstance")
    /\ UNCHANGED <<db, snap, now, ret, seen, failed, scen>>

\* the shared promise has resolved: the caller goes on to its first statement
GetDbInstanceResolved(p, first) ==
    /\ pc[p] = "getDbInstance"
    /\ boot.initializationPromise = "resolved"
    /\ Goto(p, first)
    /\ UNCHANGED <<db, snap, uuids, now, call, loc, ret, pre, seen, failed, scen, boot>>

\* the shared promise has rejected: 'Database is not available', and the
\* caller's catch returns its failure value
GetDbInstanceRejected(p) ==
    /\ pc[p] = "getDbInstance"
    /\ boot.initializationPromise = "rejected"
    /\ Finish(p, Failure)
    /\ UNCHANGED <<db, snap, uuids, now, call, loc, pre, seen, failed, scen, boot>>

Init ==
    /\ db = InitDb
    /\ snap = None
    /\ uuids = 0
    /\ now = 0
    /\ pc = [p \in Procs |-> "idle"]
    /\ call = [p \in Procs |-> NoCall]
    /\ loc = [p \in Procs |-> NoLoc]
    /\ ret = [p \in Procs |-> NoRet]
    /\ pre = [p \in Procs |-> None]
    /\ seen = [p \in Procs |-> {}]
    /\ failed = [p \in Procs |-> ""]
    /\ scen = 0
    /\ boot = Booted

AddSteps(p, F) ==
    \/ AddBegin(p, F) \/ AddSelectCategory(p, F) \/ AddSelectBalance(p, F)
    \/ AddUpdateBalance(p, F) \/ AddInsert(p, F) \/ AddCommit(p, F) \/ AddCatch(p)

DelSteps(p, F) ==
    \/ DelBegin(p, F) \/ DelSelect(p, F) \/ DelNotFound(p) \/ DelDelete(p, F)
    \/ DelSelectBalance(p, F) \/ DelUpdateBalance(p, F) \/ DelCommit(p, F) \/ DelCatch(p)

UpdSteps(p, F) ==
    \/ UpdBegin(p, F) \/ UpdSelectOld(p, F) \/ UpdSelectOldCategory(p, F)
    \/ UpdSelectNewCategory(p, F) \/ UpdSelectOldBalance(p, F) \/ UpdRevertOld(p, F)
    \/ UpdSelectNewBalance(p, F) \/ UpdApplyNew(p, F) \/ UpdSelectBalance(p, F)
    \/ UpdAdjust(p, F) \/ UpdUpdateRow(p, F) \/ UpdCommit(p, F) \/ UpdCatch(p)

LedgerSteps(p, F) == AddSteps(p, F) \/ DelSteps(p, F) \/ UpdSteps(p, F)

TxIds == 1..MaxTx
\* a category id no row ever has
\* an id no category has or gets
AbsentCategoryId == Len(DEFAULT_CATEGORIES) + MaxNewCats + 1

----------------------------------------------------------------------------
(* Spec: the three ledger mutations called one at a time, every statement  *)
(* of a call free to fail.                                                 *)

LedgerData ==
    [paymentMethod : Methods, categoryId : {GainId, GroceriesId, AbsentCategoryId},
     amount : {1, 2}, reason : {NoReason}]

Next ==
    \/ \E p \in {1} :
        \/ AddTransactionCall(p, LedgerData)
        \/ DeleteTransactionCall(p, TxIds)
        \/ UpdateTransactionCall(p, TxIds, LedgerData)
        \/ LedgerSteps(p, Faults)
        \/ Return(p)

Spec == Init /\ [][Next]_vars


----------------------------------------------------------------------------
(* SpecScenario: the worked scenario's caller.  It sets the balances while *)
(* the log is still empty, then calls the ledger with the scenario's       *)
(* arguments (and a few more), one call at a time, in any order.           *)

ScenarioData ==
    { TxData("gpay", GroceriesId, 200), TxData("gpay", GainId, 300),
      TxData("gpay", GainId, 100), TxData("gpay", GroceriesId, 100),
      TxData("cash", GroceriesId, 200) }

ScenarioFaults == {"ok", "err"}

NextScenario ==
    \E p \in {1} :
        \/ AddTransactionCall(p, ScenarioData)
        \/ DeleteTransactionCall(p, TxIds)
        \/ UpdateTransactionCall(p, TxIds, ScenarioData)
        \/ (uuids = 0 /\ UpdateBalanceCall(p, {"gpay"}, {1000}))
        \/ (uuids = 0 /\ UpdateBalanceCall(p, {"cash"}, {500}))
        \/ LedgerSteps(p, ScenarioFaults)
        \/ UpdateBalanceRun(p, ScenarioFaults)
        \/ Return(p)

SpecScenario == Init /\ [][NextScenario]_vars

----------------------------------------------------------------------------
(* SpecConc: two callers, one call each.  A handler is an async function,  *)
(* so the second call can be issued, and its statements reach the          *)
(* connection, while the first is suspended at any of its awaits.  No      *)
(* statement fails on its own.  The calls are issued on a log that is      *)
(* empty or holds one expense, added by an earlier addTransaction.         *)

ConcData ==
    { TxData("gpay", GroceriesId, 1), TxData("gpay", GainId, 2),
      TxData("cash", GroceriesId, 1) }

\* the tables after addTransaction has run alone and inserted row
AfterAdd(d, row) ==
    LET isGain == IsGainName(CatById(d, row.categoryId)[1].name)
        newBalance == AddNewBalance(isGain, d.bal[row.paymentMethod], row.amount)
    IN  SqlInsertTransaction(SqlUpdateBalance(d, row.paymentMethod, newBalance).db, row).db

FirstRow ==
    [id |-> 1, timestamp |-> 0, paymentMethod |-> "gpay", categoryId |-> GroceriesId,
     amount |-> 1, reason |-> NoReason]

InitConc ==
    /\ db \in {InitDb, AfterAdd(InitDb, FirstRow)}
    /\ uuids = Cardinality(db.txs)
    /\ snap = None
    /\ now = 0
    /\ pc = [p \in Procs |-> "idle"]
    /\ call = [p \in Procs |-> NoCall]
    /\ loc = [p \in Procs |-> NoLoc]
    /\ ret = [p \in Procs |-> NoRet]
    /\ pre = [p \in Procs |-> None]
    /\ seen = [p \in Procs |-> {}]
    /\ failed = [p \in Procs |-> ""]
    /\ scen = ScriptOff
    /\ boot = Booted

NextConc ==
    \/ \E p \in Procs :
        \/ AddTransactionCall(p, ConcData)
        \/ DeleteTransactionCall(p, TxIds)
        \/ UpdateTransactionCall(p, TxIds, ConcData)
        \/ GetAllBalancesCall(p)
        \/ LedgerSteps(p, NoFaults)
        \/ GetAllBalancesRun(p, NoFaults)
    \/ Tick

SpecConc == InitConc /\ [][NextConc]_vars

----------------------------------------------------------------------------
(* SpecCat: the category functions together with the ledger and the test   *)
(* data generator, one call at a time.  Statements of the ledger and of    *)
(* the generator may fail; those of the category functions fail only on a  *)
(* constraint.                                                             *)

MaxGenCount == 1

\* the id AUTOINCREMENT gives the first category added after seeding
FirstNewCategoryId == Len(DEFAULT_CATEGORIES) + 1

StrFun == <<"F", "u", "n">>
StrRent == <<"R", "e", "n", "t">>
StrTestReason == <<"G", "i", "f", "t", " ", "(", "T", "e", "s", "t", ")">>

CatData ==
    { TxData("gpay", GroceriesId, 1), TxData("cash", FirstNewCategoryId, 1),
      TxData("gpay", AbsentCategoryId, 1) }

CatFaults == {"ok", "err"}

CatGen ==
    [methods |-> {"gpay"}, amounts |-> {GainAmountMin, ExpenseAmountMin},
     reasons |-> {Some(StrTestReason)}, timestamps |-> {0}]

CatIds == {GainId, GroceriesId, FirstNewCategoryId}

NextCat ==
    \E p \in {1} :
        \/ AddTransactionCall(p, CatData)
        \/ DeleteTransactionCall(p, TxIds)
        \/ UpdateTransactionCall(p, TxIds, CatData)
        \/ GenerateTestDataCall(p, 0..MaxGenCount)
        \/ AddCategoryCall(p, {StrFun}, {None})
        \/ UpdateCategoryCall(p, {GainId, GroceriesId}, {StrRent}, {None})
        \/ DeleteCategoryCall(p, CatIds)
        \/ AddSteps(p, NoFaults)
        \/ DelSteps(p, CatFaults)
        \/ UpdSteps(p, NoFaults)
        \/ GenSteps(p, CatFaults, CatGen)
        \/ AddCategoryInsert(p, NoFaults)
        \/ AddCategorySelect(p, NoFaults)
        \/ UpdateCategoryRun(p, NoFaults)
        \/ DeleteCategoryRun(p, NoFaults)
        \/ Return(p)

SpecCat == Init /\ [][NextCat]_vars

----------------------------------------------------------------------------
(* SpecSet: one process runs a ledger call while the other overwrites a    *)
(* balance with updateBalance, on the shared connection.                   *)

\* an amount no ledger call of ConcData can make a balance reach
SetAmounts == {50}

NextSet ==
    \/ AddTransactionCall(1, ConcData)
    \/ DeleteTransactionCall(1, TxIds)
    \/ UpdateTransactionCall(1, TxIds, ConcData)
    \/ LedgerSteps(1, ScenarioFaults)
    \/ UpdateBalanceCall(2, Methods, SetAmounts)
    \/ UpdateBalanceRun(2, NoFaults)

SpecSet == InitConc /\ [][NextSet]_vars

----------------------------------------------------------------------------
(* SpecLive: two callers of the ledger functions on the shared connection, *)
(* one call each, every statement free to fail.  A call that has been     *)
(* issued keeps being scheduled: each of its awaits resolves.              *)

LiveData == {TxData("gpay", GroceriesId, 1), TxData("cash", GainId, 2)}

NextLive ==
    \E p \in Procs :
        \/ AddTransactionCall(p, LiveData)
        \/ DeleteTransactionCall(p, TxIds)
        \/ UpdateTransactionCall(p, TxIds, LiveData)
        \/ LedgerSteps(p, ScenarioFaults)

SpecLive ==
    /\ InitConc
    /\ [][NextLive]_vars
    /\ \A p \in Procs : WF_vars(LedgerSteps(p, ScenarioFaults))

----------------------------------------------------------------------------
(* SpecQuery: a caller that adds and updates transactions as time passes   *)
(* and lists the log with getAllTransactions once a call has returned, one *)
(* call at a time.  Process 1 holds the ledger call and its result,        *)
(* process 2 the query.                                                    *)

MaxQueryClock == 3

StrAb == <<"A", "b">>
StrGainName == <<"G", "a", "i", "n">>

QueryData ==
    { TxData("gpay", GroceriesId, 1),
      [TxData("cash", GainId, 2) EXCEPT !.reason = Some(StrAb)],
      [TxData("gpay", GroceriesId, 1) EXCEPT !.reason = Some(<<>>)] }

InitQuery == InitConc /\ db = InitDb

NextQuery ==
    \/ pc[2] = "idle" /\ AddTransactionCall(1, QueryData)
    \/ pc[2] = "idle" /\ UpdateTransactionCall(1, TxIds, QueryData)
    \/ AddSteps(1, ScenarioFaults)
    \/ UpdSteps(1, NoFaults)
    \/ pc[1] = "done" /\ GetAllTransactionsCall(2, {NoFilters})
    \/ GetAllTransactionsRun(2, ScenarioFaults)
    \/ Return(1)
    \/ Return(2)
    \/ pc[2] = "idle" /\ TickTo(MaxQueryClock)

SpecQuery == InitQuery /\ [][NextQuery]_vars

----------------------------------------------------------------------------
(* SpecFilter: getAllTransactions as a function of the log and its         *)
(* filters: the log is any that addTransaction calls at times up to        *)
(* MaxQueryClock leave behind, and one query is made.                      *)

QueryFilters ==
    { NoFilters,
      [NoFilters EXCEPT !.startDate = Some(1), !.endDate = Some(1)],
      [NoFilters EXCEPT !.startDate = Some(3)],
      [NoFilters EXCEPT !.endDate = Some(1)],
      [NoFilters EXCEPT !.paymentMethod = Some("all"), !.category = Some(StrAll)],
      [NoFilters EXCEPT !.paymentMethod = Some("cash")],
      [NoFilters EXCEPT !.category = Some(StrGainName)],
      [NoFilters EXCEPT !.searchText = Some(<<"a">>)],
      [NoFilters EXCEPT !.searchText = Some(<<"_">>)],
      [NoFilters EXCEPT !.startDate = Some(1), !.endDate = Some(1),
                        !.paymentMethod = Some("cash"), !.category = Some(StrGainName),
                        !.searchText = Some(<<"B">>)],
      [NoFilters EXCEPT !.limit = Some(0)],
      [NoFilters EXCEPT !.limit = Some(1)],
      [NoFilters EXCEPT !.limit = Some(1), !.paymentMethod = Some("gpay")],
      [NoFilters EXCEPT !.limit = Some(2)] }

\* the rows addTransaction may have inserted under id
RowsOf(id) ==
    { [id |-> id, timestamp |-> t, paymentMethod |-> d.paymentMethod,
       categoryId |-> d.categoryId, amount |-> d.amount, reason |-> d.reason]
      : t \in 0..MaxQueryClock, d \in QueryData }

\* the tables after the adds of ids 1..n, each run alone
RECURSIVE LogsOf(_)
LogsOf(n) ==
    IF n = 0 THEN {InitDb}
    ELSE LogsOf(n - 1) \cup {AfterAdd(d, row) : d \in LogsOf(n - 1), row \in RowsOf(n)}

InitFilter ==
    /\ db \in LogsOf(MaxTx)
    /\ uuids = Cardinality(db.txs)
    /\ snap = None
    /\ now = MaxQueryClock
    /\ pc = [p \in Procs |-> "idle"]
    /\ call = [p \in Procs |-> NoCall]
    /\ loc = [p \in Procs |-> NoLoc]
    /\ ret = [p \in Procs |-> NoRet]
    /\ pre = [p \in Procs |-> None]
    /\ seen = [p \in Procs |-> {}]
    /\ failed = [p \in Procs |-> ""]
    /\ scen = ScriptOff
    /\ boot = Booted

NextFilter ==
    \/ GetAllTransactionsCall(1, QueryFilters)
    \/ GetAllTransactionsRun(1, ScenarioFaults)

SpecFilter == InitFilter /\ [][NextFilter]_vars

----------------------------------------------------------------------------
(* What the claims speak of *)

Pre(p) == pre[p][1]
PreNow(p) == pre[p][2]

Done(p, o) == pc[p] = "done" /\ call[p].op = o

LedgerOpNames == {"addTransaction", "updateTransaction", "deleteTransaction"}

\* the name of the category a transaction row points to, lower-cased by
\* the table below and not by the handlers' code
CategoryNameOf(d, t) ==
    LET rows == {c \in d.cats : c.id = t.categoryId}
    IN  IF rows = {} THEN <<>> ELSE (CHOOSE c \in rows : TRUE).name

GainSpellings ==
    { <<g, a, i, n>> : g \in {"g", "G"}, a \in {"a", "A"}, i \in {"i", "I"}, n \in {"n", "N"} }

\* +amount for a row of a category named 'gain' (any case), -amount otherwise
Effect(d, t) == IF CategoryNameOf(d, t) \in GainSpellings THEN t.amount ELSE -t.amount

RECURSIVE SumOf(_, _)
SumOf(d, rows) ==
    IF rows = {} THEN 0
    ELSE LET t == CHOOSE x \in rows : TRUE
         IN  Effect(d, t) + SumOf(d, rows \ {t})

EffectSum(d, m) == SumOf(d, {t \in d.txs : t.paymentMethod = m})

\* balance minus the sum of effects, per method
Drift(d) == [m \in Methods |-> d.bal[m] - EffectSum(d, m)]

(* C1: after every addTransaction, updateTransaction or deleteTransaction  *)
(* call run alone, each method's balance minus the sum of the effects of   *)
(* its rows is what it was before the call; from the initialized store the *)
(* balance therefore equals the sum of effects between calls.              *)
C1_BalanceIsSumOfEffects ==
    \A p \in Procs :
        /\ (pc[p] = "done" => Drift(db) = Drift(Pre(p)))
        /\ ((\A q \in Procs : Quiet(q)) => \A m \in Methods : db.bal[m] = EffectSum(db, m))

\* two rows on one method with opposite signs, after a delete or update
C1_Witness ==
    /\ pc[1] = "done" /\ call[1].op \in {"updateTransaction", "deleteTransaction"}
    /\ ret[1].ok
    /\ db.txs # {}
    /\ \E m \in Methods : db.bal[m] # 0 /\ db.bal[m] = EffectSum(db, m)


(* C3: when a storage statement of addTransaction, updateTransaction or    *)
(* deleteTransaction fails while the call runs alone, the call returns its *)
(* failure value and the log and both balances are what they were before   *)
(* the call.                                                               *)
C3_FailureLeavesNoTrace ==
    \A p \in Procs :
        (pc[p] = "done" /\ call[p].op \in LedgerOpNames /\ failed[p] # "")
            => /\ ret[p] = Failure
               /\ db.txs = Pre(p).txs
               /\ db.bal = Pre(p).bal
               /\ ~InTxn

\* the row write or the COMMIT failed after the balance write had succeeded
C3_Witness ==
    /\ pc[1] = "done" /\ ret[1] = Failure
    /\ failed[1] \in {"add_insert", "add_commit", "upd_updateRow", "upd_commit", "del_commit"}
    /\ db = Pre(1)

\* the row of transaction id as the call found it
OldRow(p) == CHOOSE t \in Pre(p).txs : t.id = call[p].id
SignedAmount(gain, amount) == IF gain THEN amount ELSE -amount
WasGain(p) == CategoryNameOf(Pre(p), OldRow(p)) \in GainSpellings
IsGain(p) == CategoryNameOf(Pre(p), call[p].data) \in GainSpellings
Other(m) == CHOOSE o \in Methods : o # m

(* C8: a successful updateTransaction that keeps the payment method        *)
(* changes that method's balance by (isGain ? new : -new) - (wasGain ? old *)
(* : -old) and leaves the other balance alone; an expense moved to Gain    *)
(* with the same amount a raises the balance by 2a.                        *)
C8_SameMethodNetDelta ==
    \A p \in Procs :
        (Done(p, "updateTransaction") /\ ret[p].ok
           /\ OldRow(p).paymentMethod = call[p].data.paymentMethod)
            => LET m == call[p].data.paymentMethod
                   delta == SignedAmount(IsGain(p), call[p].data.amount)
                              - SignedAmount(WasGain(p), OldRow(p).amount)
               IN  /\ db.bal[m] = Pre(p).bal[m] + delta
                   /\ db.bal[Other(m)] = Pre(p).bal[Other(m)]
                   /\ (~WasGain(p) /\ IsGain(p) /\ call[p].data.amount = OldRow(p).amount
                         => db.bal[m] = Pre(p).bal[m] + 2 * OldRow(p).amount)

\* an expense of 100 moved to Gain: +200
C8_Witness ==
    /\ Done(1, "updateTransaction") /\ ret[1].ok
    /\ OldRow(1).paymentMethod = call[1].data.paymentMethod
    /\ OldRow(1).categoryId = GroceriesId /\ call[1].data.categoryId = GainId
    /\ OldRow(1).amount = 100 /\ call[1].data.amount = 100
    /\ db.bal[call[1].data.paymentMethod] = Pre(1).bal[call[1].data.paymentMethod] + 200

(* C9: a successful updateTransaction that changes the payment method      *)
(* reverts the old effect on the old method's balance and applies the new  *)
(* effect to the new method's balance; when only the method changes, for   *)
(* an expense of amount a, the old balance rises by a, the new one falls   *)
(* by a and their sum is unchanged.                                        *)
C9_MethodSwitch ==
    \A p \in Procs :
        (Done(p, "updateTransaction") /\ ret[p].ok
           /\ OldRow(p).paymentMethod # call[p].data.paymentMethod)
            => LET o == OldRow(p).paymentMethod
                   m == call[p].data.paymentMethod
                   a == OldRow(p).amount
               IN  /\ db.bal[o] = Pre(p).bal[o] + (IF WasGain(p) THEN -a ELSE a)
                   /\ db.bal[m] = Pre(p).bal[m]
                                    + (IF IsGain(p) THEN call[p].data.amount
                                       ELSE -call[p].data.amount)
                   /\ (~WasGain(p) /\ OldRow(p).categoryId = call[p].data.categoryId
                         /\ call[p].data.amount = a
                         => /\ db.bal[o] = Pre(p).bal[o] + a
                            /\ db.bal[m] = Pre(p).bal[m] - a
                            /\ db.bal[o] + db.bal[m] = Pre(p).bal[o] + Pre(p).bal[m])

\* only the method of an expense changes, gpay to cash
C9_Witness ==
    /\ Done(1, "updateTransaction") /\ ret[1].ok
    /\ OldRow(1).paymentMethod = "gpay" /\ call[1].data.paymentMethod = "cash"
    /\ OldRow(1).categoryId = GroceriesId /\ call[1].data.categoryId = GroceriesId
    /\ OldRow(1).amount = call[1].data.amount
    /\ db.bal["gpay"] = Pre(1).bal["gpay"] + OldRow(1).amount
    /\ db.bal["cash"] = Pre(1).bal["cash"] - OldRow(1).amount


AllIdle == \A p \in Procs : pc[p] = "idle"

(* C10: from balances gpay = 1000, cash = 500 set through updateBalance    *)
(* and an empty log, add(gpay, Groceries, 200), add(gpay, Gain, 300),      *)
(* delete of the Groceries row and update of the Gain row to amount 100    *)
(* leave gpay at 800, 1100, 1300 and 1100, with cash at 500 throughout.    *)
C10_Scenario ==
    AllIdle =>
        /\ (scen = 2 => db.bal = [gpay |-> 1000, cash |-> 500] /\ db.txs = {})
        /\ (scen = 3 => db.bal = [gpay |-> 800, cash |-> 500])
        /\ (scen = 4 => db.bal = [gpay |-> 1100, cash |-> 500])
        /\ (scen = 5 => db.bal = [gpay |-> 1300, cash |-> 500])
        /\ (scen = 6 => db.bal = [gpay |-> 1100, cash |-> 500])

\* the whole script has run
C10_Witness == AllIdle /\ scen = Len(Script)


\* the category row a category call names, as the call found it
Target(p) == {c \in Pre(p).cats : c.id = call[p].id}
Referencing(d, id) == {t \in d.txs : t.categoryId = id}

(* C5: updateCategory and deleteCategory return false and leave the        *)
(* category table unchanged whenever the id is that of the category named  *)
(* 'Uncategorized' or 'Gain' (any case), whatever name and limit are given *)
(* and whether or not a transaction references the category.               *)
C5_ReservedCategoriesProtected ==
    \A p \in Procs :
        ((Done(p, "updateCategory") \/ Done(p, "deleteCategory"))
           /\ \E c \in Target(p) : IsReservedName(c.name))
            => ret[p] = Failure /\ db.cats = Pre(p).cats

(* C6: deleteCategory on an existing category that is not reserved returns *)
(* true and removes the category exactly when no transaction of the log    *)
(* has that categoryId; otherwise it returns false and changes neither the *)
(* categories nor the transactions.                                        *)
C6_DeleteCategoryIffUnreferenced ==
    \A p \in Procs :
        (Done(p, "deleteCategory") /\ \E c \in Target(p) : ~IsReservedName(c.name))
            => /\ ret[p].ok <=> Referencing(Pre(p), call[p].id) = {}
               /\ db.txs = Pre(p).txs
               /\ db.bal = Pre(p).bal
               /\ db.cats = IF ret[p].ok THEN Pre(p).cats \ Target(p) ELSE Pre(p).cats

\* Groceries is deleted once transactions have come and none is left on it,
\* while the log still holds a row of another category
C6_Witness ==
    /\ Done(1, "deleteCategory") /\ ret[1].ok
    /\ call[1].id = GroceriesId
    /\ Target(1) # {}
    /\ uuids = MaxTx
    /\ db.txs # {}
    /\ Referencing(db, GroceriesId) = {}

(* C7: in every state reached by category operations, ledger operations   *)
(* and test-data generation, every transaction of the log has the id of an *)
(* existing category as its categoryId.                                    *)
C7_CategoryIdsExist ==
    \A t \in db.txs : \E c \in db.cats : c.id = t.categoryId

\* a referenced category was asked to be deleted and is still there
C7_Witness ==
    /\ Done(1, "deleteCategory") /\ ~ret[1].ok
    /\ Referencing(db, call[1].id) # {}
    /\ Target(1) \subseteq db.cats
    /\ \E t \in db.txs : t.categoryId = FirstNewCategoryId

AllQuiet == \A p \in Procs : Quiet(p)

RowIds(d) == {t.id : t \in d.txs}

(* C2: when two of addTransaction, updateTransaction, deleteTransaction    *)
(* run concurrently on the shared connection, then once both have returned *)
(* each balance equals the sum of effects of the rows in the log, and a    *)
(* call that returned failure has left neither a row nor a balance change. *)
C2_ConcurrentMutationsSerialize ==
    AllQuiet =>
        /\ \A m \in Methods : db.bal[m] = EffectSum(db, m)
        /\ \A p \in Procs :
              (Done(p, "addTransaction") /\ ~ret[p].ok) => loc[p].newId \notin RowIds(db)

(* C4: a getAllBalances that runs while a ledger mutation is in progress   *)
(* returns the balances as they were before that mutation or as they are   *)
(* after it, never an intermediate pair.                                   *)
C4_ReadsSeePreOrPost ==
    \A r \in Procs, q \in Procs :
        (Done(r, "getAllBalances") /\ ret[r].ok /\ q \in seen[r]
           /\ pc[q] = "done" /\ call[q].op \in LedgerOpNames)
            => ret[r].val[1] \in {Pre(q).bal, db.bal}

\* the ledger call of process q reads or writes the balance of method m
Touches(q, m) ==
    \/ call[q].op = "addTransaction" /\ call[q].data.paymentMethod = m
    \/ /\ call[q].op \in {"updateTransaction", "deleteTransaction"}
       /\ \E t \in Pre(q).txs : t.id = call[q].id /\ t.paymentMethod = m
    \/ /\ call[q].op = "updateTransaction" /\ call[q].data.paymentMethod = m
       /\ \E t \in Pre(q).txs : t.id = call[q].id

(* C11: when updateBalance(m, x) has returned true and a ledger call that  *)
(* touches m and overlapped it has returned too, the balance of m is x or  *)
(* x plus the effect the ledger call has had on the log: the overwrite is  *)
(* neither lost to a value computed from an earlier read nor rolled back.  *)
C11_SetBalanceSerializes ==
    \A u \in Procs, q \in Procs :
        (Done(u, "updateBalance") /\ ret[u].ok
           /\ pc[q] = "done" /\ call[q].op \in LedgerOpNames
           /\ Touches(q, call[u].type))
            => LET m == call[u].type
                   x == call[u].newAmount
               IN  db.bal[m] \in {x, x + EffectSum(db, m) - EffectSum(Pre(q), m)}

CategoryIds(d) == {c.id : c \in d.cats}

(* C12: addTransaction or updateTransaction called with a categoryId that  *)
(* no category has returns its failure value, leaves the log and both      *)
(* balances as they were, and leaves no storage transaction open.          *)
C12_UnknownCategoryRejected ==
    \A p \in Procs :
        ((Done(p, "addTransaction") \/ Done(p, "updateTransaction"))
           /\ call[p].data.categoryId \notin CategoryIds(Pre(p)))
            => /\ ~ret[p].ok
               /\ db.txs = Pre(p).txs
               /\ db.bal = Pre(p).bal
               /\ ~InTxn

\* an existing row is asked to move to a category that does not exist, and
\* no statement failed on the way
C12_Witness ==
    /\ Done(1, "updateTransaction") /\ ~ret[1].ok
    /\ call[1].data.categoryId = AbsentCategoryId
    /\ call[1].id \in RowIds(Pre(1))
    /\ failed[1] = ""
    /\ db = Pre(1)

(* C13: deleteTransaction and updateTransaction called with an id that is  *)
(* not in the log return false and leave the log and both balances as they *)
(* were; a second delete of the same id therefore reverts nothing more.    *)
C13_UnknownIdRejected ==
    \A p \in Procs :
        ((Done(p, "deleteTransaction") \/ Done(p, "updateTransaction"))
           /\ call[p].id \notin RowIds(Pre(p)))
            => /\ ~ret[p].ok
               /\ db.txs = Pre(p).txs
               /\ db.bal = Pre(p).bal

\* a delete of an id that was given out before and is no longer in the log,
\* with no statement failing
C13_Witness ==
    /\ Done(1, "deleteTransaction") /\ ~ret[1].ok
    /\ call[1].id <= uuids
    /\ call[1].id \notin RowIds(Pre(1))
    /\ failed[1] = ""
    /\ \A m \in Methods : db.bal[m] = EffectSum(db, m)

Returned(p) == pc[p] = "done"
Running(p) == pc[p] \notin {"idle", "done"}

(* C14: every addTransaction, updateTransaction or deleteTransaction that  *)
(* has been issued eventually returns, and whenever no call is in flight,  *)
(* whatever has succeeded or failed before, no storage transaction is open *)
(* on the shared connection, so the BEGIN of the next call can succeed.    *)
C14_ReturnsAndLeavesNoTransactionOpen ==
    /\ \A p \in Procs : (Running(p) ~> Returned(p))
    /\ [](InFlight = {} => ~InTxn)

\* both calls have returned, one after its BEGIN failed and the other after
\* its COMMIT failed
C14_Witness ==
    /\ \A p \in Procs : Returned(p)
    /\ \E p \in Procs : failed[p] \in {"add_begin", "del_begin", "upd_begin"}
    /\ \E p \in Procs : failed[p] \in {"add_commit", "del_commit", "upd_commit"}
    /\ ~InTxn

(* C15: an addTransaction in a category other than Gain whose amount is    *)
(* more than the balance of its payment method, with no statement failing, *)
(* succeeds, inserts the row and stores balance - amount, a negative       *)
(* number: the balance is not clamped and the call is not rejected.        *)
C15_OverdraftGoesNegative ==
    \A p \in Procs :
        (Done(p, "addTransaction") /\ failed[p] = ""
           /\ call[p].data.categoryId \in CategoryIds(Pre(p))
           /\ ~IsGain(p)
           /\ call[p].data.amount > Pre(p).bal[call[p].data.paymentMethod])
            => LET m == call[p].data.paymentMethod
               IN  /\ ret[p].ok
                   /\ db.bal[m] = Pre(p).bal[m] - call[p].data.amount
                   /\ db.bal[m] < 0
                   /\ RowIds(db) = RowIds(Pre(p)) \cup {loc[p].newId}
                   /\ loc[p].newId \notin RowIds(Pre(p))

\* a positive balance is taken below zero
C15_Witness ==
    /\ Done(1, "addTransaction") /\ ret[1].ok
    /\ ~IsGain(1)
    /\ Pre(1).bal[call[1].data.paymentMethod] > 0
    /\ call[1].data.amount > Pre(1).bal[call[1].data.paymentMethod]
    /\ db.bal[call[1].data.paymentMethod] < 0

----------------------------------------------------------------------------
(* SpecNames: addCategory and updateCategory, one call at a time, with     *)
(* names that are empty, blank, 'all' in either case, padded or plain, and *)
(* with the id of a category that exists and of one that does not.         *)

StrAllUpper == <<"A", "L", "L">>
StrPaddedFun == <<" ", "F", "u", "n", " ">>

CategoryNames == {<<>>, <<" ", " ">>, StrAll, StrAllUpper, StrPaddedFun, StrRent}

CategoryLimits == {None, Some(100)}

NextNames ==
    \/ AddCategoryCall(1, CategoryNames, CategoryLimits)
    \/ AddCategoryInsert(1, NoFaults)
    \/ AddCategorySelect(1, NoFaults)
    \/ UpdateCategoryCall(1, {GroceriesId, FirstNewCategoryId, AbsentCategoryId},
                          CategoryNames, CategoryLimits)
    \/ UpdateCategoryRun(1, NoFaults)
    \/ Return(1)

SpecNames == Init /\ [][NextNames]_vars

----------------------------------------------------------------------------
(* SpecNaming: one caller that adds, renames and deletes categories under  *)
(* names that exist already or read as 'gain', between adds and deletes of *)
(* transactions.                                                           *)

NamingNames == {StrGainName, StrGain, StrRent}

NamingData == {TxData("gpay", GroceriesId, 1), TxData("gpay", GainId, 2)}

NextNaming ==
    \/ AddCategoryCall(1, NamingNames, {None})
    \/ UpdateCategoryCall(1, {GainId, GroceriesId}, NamingNames, {None})
    \/ DeleteCategoryCall(1, {GroceriesId, FirstNewCategoryId})
    \/ AddCategoryInsert(1, NoFaults)
    \/ AddCategorySelect(1, NoFaults)
    \/ UpdateCategoryRun(1, NoFaults)
    \/ DeleteCategoryRun(1, NoFaults)
    \/ AddTransactionCall(1, NamingData)
    \/ DeleteTransactionCall(1, TxIds)
    \/ AddSteps(1, NoFaults)
    \/ DelSteps(1, CatFaults)
    \/ Return(1)

SpecNaming == Init /\ [][NextNaming]_vars

----------------------------------------------------------------------------
(* SpecGen: one caller of generateTestDataForMonth, with up to             *)
(* MaxGenCount + 1 items a call, each a gain or an expense on gpay, every  *)
(* statement free to fail.                                                 *)

NextGen ==
    \/ GenerateTestDataCall(1, 0..(MaxGenCount + 1))
    \/ GenSteps(1, CatFaults, CatGen)
    \/ Return(1)

SpecGen == Init /\ [][NextGen]_vars

----------------------------------------------------------------------------
(* SpecMonth: getAllTransactions with year and month filters, alone and    *)
(* next to startDate or endDate, over logs whose rows lie on both sides of *)
(* the ends of January and February 1970.                                  *)

MonthMs == MonthDays * DayMs

MonthFilters ==
    { [NoFilters EXCEPT !.year = Some(1970), !.month = Some(1)],
      [NoFilters EXCEPT !.year = Some(1970), !.month = Some(2)],
      [NoFilters EXCEPT !.year = Some(1970)],
      [NoFilters EXCEPT !.startDate = Some(0), !.year = Some(1970), !.month = Some(2)],
      [NoFilters EXCEPT !.endDate = Some(MonthMs), !.year = Some(1970), !.month = Some(1)],
      [NoFilters EXCEPT !.startDate = Some(0), !.endDate = Some(0),
                        !.year = Some(1970), !.month = Some(2)] }

\* the rows addTransaction may have inserted under id at the ends of the months
MonthRowsOf(id) ==
    { [id |-> id, timestamp |-> t, paymentMethod |-> "gpay",
       categoryId |-> GroceriesId, amount |-> 1, reason |-> NoReason]
      : t \in {0, MonthMs - 1, MonthMs, 2 * MonthMs - 1, 2 * MonthMs} }

RECURSIVE MonthLogsOf(_)
MonthLogsOf(n) ==
    IF n = 0 THEN {InitDb}
    ELSE MonthLogsOf(n - 1)
           \cup {AfterAdd(d, row) : d \in MonthLogsOf(n - 1), row \in MonthRowsOf(n)}

InitMonth ==
    /\ db \in MonthLogsOf(MaxTx)
    /\ uuids = Cardinality(db.txs)
    /\ snap = None
    /\ now = 2 * MonthMs
    /\ pc = [p \in Procs |-> "idle"]
    /\ call = [p \in Procs |-> NoCall]
    /\ loc = [p \in Procs |-> NoLoc]
    /\ ret = [p \in Procs |-> NoRet]
    /\ pre = [p \in Procs |-> None]
    /\ seen = [p \in Procs |-> {}]
    /\ failed = [p \in Procs |-> ""]
    /\ scen = ScriptOff
    /\ boot = Booted

NextMonth ==
    \/ GetAllTransactionsCall(1, MonthFilters)
    \/ GetAllTransactionsRun(1, ScenarioFaults)

SpecMonth == InitMonth /\ [][NextMonth]_vars

----------------------------------------------------------------------------
(* SpecBoot: a process that has just started, over the tables an earlier   *)
(* run left behind or over none, in which two callers issue addTransaction *)
(* before, while and after the initialization runs; opening the database   *)
(* and every statement of the initialization may fail.                     *)

BootData == {TxData("gpay", GroceriesId, 1)}

InitBoot ==
    /\ db \in {EmptyTables, AfterAdd(InitDb, FirstRow)}
    /\ snap = None
    /\ uuids = 0
    /\ now = 0
    /\ pc = [p \in Procs |-> "idle"]
    /\ call = [p \in Procs |-> NoCall]
    /\ loc = [p \in Procs |-> NoLoc]
    /\ ret = [p \in Procs |-> NoRet]
    /\ pre = [p \in Procs |-> None]
    /\ seen = [p \in Procs |-> {}]
    /\ failed = [p \in Procs |-> ""]
    /\ scen = ScriptOff
    /\ boot = Unbooted

NextBoot ==
    \/ InitSteps(ScenarioFaults)
    \/ \E p \in Procs :
          \/ AddTransactionAwaiting(p, BootData, ScenarioFaults)
          \/ GetDbInstanceResolved(p, "add_begin")
          \/ GetDbInstanceRejected(p)
          \/ AddSteps(p, NoFaults)
          \/ Return(p)

SpecBoot == InitBoot /\ [][NextBoot]_vars

----------------------------------------------------------------------------
(* The add and edit forms of the screens *)

DigitChars == <<"0", "1", "2", "3", "4", "5", "6", "7", "8", "9">>

IsDigit(c) == \E i \in 1..Len(DigitChars) : DigitChars[i] = c
DigitValue(c) == (CHOOSE i \in 1..Len(DigitChars) : DigitChars[i] = c) - 1

\* the longest run of digits a text starts with
RECURSIVE DigitsPrefix(_)
DigitsPrefix(s) ==
    IF s # <<>> /\ IsDigit(Head(s)) THEN <<Head(s)>> \o DigitsPrefix(Tail(s)) ELSE <<>>

RECURSIVE DecimalValue(_)
DecimalValue(ds) ==
    IF ds = <<>> THEN 0
    ELSE 10 * DecimalValue(SubSeq(ds, 1, Len(ds) - 1)) + DigitValue(ds[Len(ds)])

\* parseFloat on texts without fraction or exponent: leading blanks are
\* skipped, one sign is taken, the digits that follow are read and the rest
\* is ignored; with no digit the result is NaN, written None
parseFloat(s) ==
    LET t == trimStart(s)
        signed == t # <<>> /\ Head(t) \in {"-", "+"}
        ds == DigitsPrefix(IF signed THEN Tail(t) ELSE t)
    IN  IF ds = <<>> THEN None
        ELSE Some(IF signed /\ Head(t) = "-" THEN -DecimalValue(ds) ELSE DecimalValue(ds))

\* inputReason.trim() || undefined
FormReason(text) == IF trim(text) = <<>> THEN None ELSE Some(trim(text))

\* a form handler that showed an alert and returned without calling the store
Alerted(p, handler) ==
    /\ Issue(p, [op |-> handler], NoLoc)
    /\ Goto(p, "done")
    /\ UNCHANGED uuids

\* handleAddNewTransaction: isNaN(amount) || amount <= 0 and a missing
\* category are refused with an alert; otherwise addTransaction is called
handleAddNewTransaction(p, Amounts, Reasons, PaymentMethods, CategoryChoices) ==
    \E inputAmount \in Amounts, inputReason \in Reasons,
       inputPaymentMethod \in PaymentMethods, inputCategoryId \in CategoryChoices :
        LET amount == parseFloat(inputAmount)
        IN  IF amount = None \/ amount[1] <= 0 \/ inputCategoryId = None
            THEN Alerted(p, "handleAddNewTransaction")
            ELSE AddTransactionCall(p,
                    {[paymentMethod |-> inputPaymentMethod, categoryId |-> inputCategoryId[1],
                      amount |-> amount[1], reason |-> FormReason(inputReason)]})

\* handleSaveChanges: isNaN(amount) and a missing category are refused with
\* an alert; otherwise updateTransaction is called
handleSaveChanges(p, Ids, Amounts, Reasons, PaymentMethods, CategoryChoices) ==
    \E id \in Ids, editInputAmount \in Amounts, editInputReason \in Reasons,
       editInputPaymentMethod \in PaymentMethods, editInputCategoryId \in CategoryChoices :
        LET amount == parseFloat(editInputAmount)
        IN  IF amount = None \/ editInputCategoryId = None
            THEN Alerted(p, "handleSaveChanges")
            ELSE UpdateTransactionCall(p, {id},
                    {[paymentMethod |-> editInputPaymentMethod,
                      categoryId |-> editInputCategoryId[1],
                      amount |-> amount[1], reason |-> FormReason(editInputReason)]})

----------------------------------------------------------------------------
(* The monthly analyzer screen *)

\* SELECT id FROM categories WHERE name = 'Gain'; null when there is none
\* or the query fails
getGainCategoryId(d, ok) ==
    IF ok THEN First({c.id : c \in {x \in d.cats : x.name = DEFAULT_CATEGORIES[GainId].name}})
    ELSE None

Abs(x) == IF x < 0 THEN -x ELSE x

\* the sum of Math.abs(tx.amount) over rows
RECURSIVE SumAbs(_)
SumAbs(rows) ==
    IF rows = {} THEN 0
    ELSE LET tx == CHOOSE x \in rows : TRUE
         IN  Abs(tx.amount) + SumAbs(rows \ {tx})

\* new Date(tx.timestamp).getDate()
DayOfMonth(timestamp) == ((timestamp \div DayMs) % MonthDays) + 1

\* tx.categoryName || 'Uncategorized'
ExpenseLabel(tx) ==
    IF tx.categoryName = <<>> THEN DEFAULT_CATEGORIES[UncategorizedId].name ELSE tx.categoryName

\* the screen's state while fetchData runs: setIsLoading(true), totals as
\* on a screen that has shown nothing yet
Loading ==
    [isLoading |-> TRUE, transactions |-> {}, totalIncome |-> 0, totalExpenses |-> 0,
     dailyExpenses |-> <<>>, categoryExpenses |-> <<>>]

\* the loop of fetchData and the state it sets.  The exclusion check is a
\* return: at the first excluded row the function is left, after
\* setTransactions and before every other setter.
Analyzed(fetchedTransactions, gainCategoryId, excludedCategoryIds) ==
    IF \E tx \in fetchedTransactions :
           tx.categoryId # 0 /\ tx.categoryId \in excludedCategoryIds
    THEN [Loading EXCEPT !.transactions = fetchedTransactions]
    ELSE LET income == {tx \in fetchedTransactions :
                           /\ gainCategoryId # None /\ gainCategoryId[1] # 0
                           /\ tx.categoryId = gainCategoryId[1]}
             expenses == fetchedTransactions \ income
         IN  [isLoading |-> FALSE,
              transactions |-> fetchedTransactions,
              totalIncome |-> SumAbs(income),
              totalExpenses |-> SumAbs(expenses),
              dailyExpenses |->
                  [day \in {DayOfMonth(tx.timestamp) : tx \in expenses} |->
                      SumAbs({tx \in expenses : DayOfMonth(tx.timestamp) = day})],
              categoryExpenses |->
                  [name \in {ExpenseLabel(tx) : tx \in expenses} |->
                      [amount |-> SumAbs({tx \in expenses : ExpenseLabel(tx) = name}),
                       count |-> Cardinality({tx \in expenses : ExpenseLabel(tx) = name})]]]

\* the screen is shown for a month with a set of excluded categories
FetchDataCall(p, Years, Months, Excluded) ==
    /\ \E selectedYear \in Years, selectedMonth \in Months, excludedCategoryIds \in Excluded :
         Issue(p, [op |-> "fetchData", selectedYear |-> selectedYear,
                   selectedMonth |-> selectedMonth,
                   excludedCategoryIds |-> excludedCategoryIds], NoLoc)
    /\ Goto(p, "an_gainId")
    /\ UNCHANGED uuids

\* fetchGainId: setGainCategoryId(await getGainCategoryId())
fetchGainId(p, F) ==
    /\ pc[p] = "an_gainId"
    /\ \E f \in F :
         LET c == Read(f)
         IN  /\ Apply(p, c)
             /\ loc' = [loc EXCEPT ![p].gainCategoryId = getGainCategoryId(db, c.ok)]
             /\ Goto(p, "an_fetch")
    /\ UNCHANGED <<uuids, now, call, ret, pre, seen, scen, boot>>

\* fetchData: getAllTransactions({year, month: selectedMonth + 1}), which
\* yields [] on an error, then the loop
fetchData(p, F) ==
    /\ pc[p] = "an_fetch"
    /\ \E f \in F :
         LET c == Read(f)
             filters == [NoFilters EXCEPT !.year = Some(call[p].selectedYear),
                                          !.month = Some(call[p].selectedMonth + 1)]
             fetchedTransactions ==
                 IF c.ok THEN {r \in Joined(db) : WhereClauses(r, filters)} ELSE {}
         IN  /\ Apply(p, c)
             /\ Finish(p, Success(Some(Analyzed(fetchedTransactions, loc[p].gainCategoryId,
                                                call[p].excludedCategoryIds))))
    /\ UNCHANGED <<uuids, now, call, loc, pre, seen, scen, boot>>

----------------------------------------------------------------------------
(* SpecAnalyzer: one user who adds a category named 'gain', adds           *)
(* transactions and opens the analyzer for January 1970, with and without  *)
(* excluded categories.                                                    *)

AnalyzerData ==
    { TxData("gpay", GainId, 2), TxData("gpay", GroceriesId, 1),
      TxData("cash", FirstNewCategoryId, 5) }

NextAnalyzer ==
    \/ AddCategoryCall(1, {StrGain}, {None})
    \/ AddCategoryInsert(1, NoFaults)
    \/ AddCategorySelect(1, NoFaults)
    \/ AddTransactionCall(1, AnalyzerData)
    \/ AddSteps(1, NoFaults)
    \/ FetchDataCall(1, {1970}, {0}, {{}, {GroceriesId}})
    \/ fetchGainId(1, ScenarioFaults)
    \/ fetchData(1, ScenarioFaults)
    \/ Return(1)

SpecAnalyzer == Init /\ [][NextAnalyzer]_vars

----------------------------------------------------------------------------
(* SpecForms: one user of the add form and of the edit form, typing        *)
(* amounts that are positive, zero, negative or no number.                 *)

FormAmounts == {<<" ", "1", "0">>, <<"0">>, <<"-", "5", "x">>, <<"x">>}

FormReasons == {<<" ">>, <<" ", "A", "b">>}

FormCategories == {None, Some(GroceriesId)}

NextForms ==
    \/ handleAddNewTransaction(1, FormAmounts, FormReasons, {"gpay"}, FormCategories)
    \/ handleSaveChanges(1, {1}, FormAmounts, FormReasons, Methods, FormCategories)
    \/ AddSteps(1, ScenarioFaults)
    \/ UpdSteps(1, NoFaults)
    \/ Return(1)

SpecForms == Init /\ [][NextForms]_vars

\* the rows a query returned, and the row an add returned
Listed(p) == ret[p].val[1]
Added(p) == ret[p].val[1]
ListedSet(p) == {Listed(p)[i] : i \in 1..Len(Listed(p))}

\* a listed row without its joined category name
Stored(r) ==
    [id |-> r.id, timestamp |-> r.timestamp, paymentMethod |-> r.paymentMethod,
     categoryId |-> r.categoryId, amount |-> r.amount, reason |-> r.reason]

(* C16: after a successful addTransaction(d), getAllTransactions({}) lists *)
(* exactly one row with the returned id; its paymentMethod, categoryId,    *)
(* amount and reason are those of d (reason null when omitted), its        *)
(* categoryName is the name of category d.categoryId and its timestamp the *)
(* time of the add; every row that was in the log before is listed         *)
(* unchanged.                                                              *)
C16_AddThenListRoundTrip ==
    (Done(1, "addTransaction") /\ ret[1].ok
       /\ Done(2, "getAllTransactions") /\ failed[2] = "" /\ call[2].filters = NoFilters)
        => LET d == call[1].data
               mine == {i \in 1..Len(Listed(2)) : Listed(2)[i].id = Added(1).id}
           IN  /\ Cardinality(mine) = 1
               /\ Added(1).id \notin RowIds(Pre(1))
               /\ \A i \in mine :
                     /\ Listed(2)[i].paymentMethod = d.paymentMethod
                     /\ Listed(2)[i].categoryId = d.categoryId
                     /\ Listed(2)[i].amount = d.amount
                     /\ Listed(2)[i].reason = d.reason
                     /\ Listed(2)[i].categoryName = CategoryNameOf(db, d)
                     /\ Listed(2)[i].timestamp = PreNow(1)
               /\ Len(Listed(2)) = Cardinality(Pre(1).txs) + 1
               /\ \A t \in Pre(1).txs : \E r \in ListedSet(2) : Stored(r) = t

\* a second row, carrying a reason, is added after the clock has moved and
\* is listed with the first
C16_Witness ==
    /\ Done(1, "addTransaction") /\ ret[1].ok
    /\ Done(2, "getAllTransactions") /\ failed[2] = "" /\ call[2].filters = NoFilters
    /\ call[1].data.reason = Some(StrAb)
    /\ PreNow(1) > 0
    /\ Len(Listed(2)) = 2
    /\ \E r \in ListedSet(2) : r.id = Added(1).id /\ r.reason = Some(StrAb)
                                 /\ r.categoryName = StrGainName

\* a successful updateTransaction has left one row of its id, with the new
\* amount, method and category, reason as its reason, a timestamp taken
\* during the call, and every other row as it was
UpdatedWith(p, reason) ==
    LET d == call[p].data
        new == {t \in db.txs : t.id = call[p].id}
    IN  /\ Cardinality(new) = 1
        /\ Cardinality(db.txs) = Cardinality(Pre(p).txs)
        /\ db.txs \ new = Pre(p).txs \ {OldRow(p)}
        /\ \A t \in new :
              /\ t.amount = d.amount
              /\ t.paymentMethod = d.paymentMethod
              /\ t.categoryId = d.categoryId
              /\ t.reason = reason
              /\ PreNow(p) <= t.timestamp /\ t.timestamp <= now
              /\ OldRow(p).timestamp <= t.timestamp

(* C17, as the spec has it: a successful updateTransaction(id, d) keeps    *)
(* the id, leaves the number of transactions and every other transaction   *)
(* unchanged, sets amount, reason, paymentMethod and categoryId to those   *)
(* of d and the timestamp to the time of the update.                       *)
C17_UpdateSetsNewData ==
    \A p \in Procs :
        (Done(p, "updateTransaction") /\ ret[p].ok)
            => UpdatedWith(p, call[p].data.reason)

(* C17, amended: as above, except that the reason stored is null when the  *)
(* reason of d is omitted or is the empty string.                          *)
C17_UpdateSetsNewDataEmptyReasonNull ==
    \A p \in Procs :
        (Done(p, "updateTransaction") /\ ret[p].ok)
            => UpdatedWith(p, IF call[p].data.reason \in {None, Some(<<>>)}
                              THEN None ELSE call[p].data.reason)

\* an update with an empty reason, made after the clock has moved, of a
\* row that had a reason, while another row is in the log
C17_Witness ==
    /\ Done(1, "updateTransaction") /\ ret[1].ok
    /\ call[1].data.reason = Some(<<>>)
    /\ OldRow(1).reason = Some(StrAb)
    /\ Cardinality(db.txs) = 2
    /\ \E t \in db.txs : t.id = call[1].id /\ t.reason = None
                           /\ t.timestamp > OldRow(1).timestamp

\* the day a time falls on
DayOf(ts) == ts \div DayMs

\* sub occurs in text, letter case ignored
Contains(text, sub) ==
    \E i \in 0..(Len(text) - Len(sub)) :
        SubSeq(toLowerCase(text), i + 1, i + Len(sub)) = toLowerCase(sub)

\* row r satisfies every restriction that filters supplies
Satisfies(r, filters) ==
    /\ filters.startDate # None => DayOf(r.timestamp) >= DayOf(filters.startDate[1])
    /\ filters.endDate # None => DayOf(r.timestamp) <= DayOf(filters.endDate[1])
    /\ (filters.paymentMethod # None /\ filters.paymentMethod[1] # "all")
          => r.paymentMethod = filters.paymentMethod[1]
    /\ (filters.category # None /\ filters.category[1] # StrAll)
          => r.categoryName = filters.category[1]
    /\ filters.searchText # None
          => r.reason # None /\ Contains(r.reason[1], filters.searchText[1])

(* C18: getAllTransactions(filters), with no limit, returns exactly the    *)
(* transactions that satisfy every supplied restriction at once: timestamp *)
(* within the days of startDate and endDate, paymentMethod equal to the    *)
(* given method, joined category name equal to the given name, reason      *)
(* containing searchText (letter case ignored); an absent filter, or 'all' *)
(* for method or category, restricts nothing, and no satisfying            *)
(* transaction is omitted.                                                 *)
C18_FiltersSelectExactly ==
    (Done(1, "getAllTransactions") /\ failed[1] = "" /\ call[1].filters.limit = None)
        => ListedSet(1) = {r \in Joined(db) : Satisfies(r, call[1].filters)}

\* the rows that match the filters other than limit
Matching(p) == {r \in Joined(db) : WhereClauses(r, [call[p].filters EXCEPT !.limit = None])}

(* C19: getAllTransactions returns its rows ordered by timestamp, newest   *)
(* first; when a limit n >= 0 is supplied the result holds at most n rows, *)
(* and they are the n newest of the rows that match the other filters.     *)
C19_NewestFirstAndLimit ==
    (Done(1, "getAllTransactions") /\ failed[1] = "")
        => LET rows == Listed(1)
               limit == call[1].filters.limit
           IN  /\ \A i, j \in 1..Len(rows) :
                     i < j => rows[i].timestamp >= rows[j].timestamp
               /\ ListedSet(1) \subseteq Matching(1)
               /\ Cardinality(ListedSet(1)) = Len(rows)
               /\ limit = None => Len(rows) = Cardinality(Matching(1))
               /\ limit # None =>
                     /\ Len(rows) <= limit[1]
                     /\ Len(rows) = IF Cardinality(Matching(1)) < limit[1]
                                    THEN Cardinality(Matching(1)) ELSE limit[1]
                     /\ \A o \in Matching(1) \ ListedSet(1) : \A r \in ListedSet(1) :
                           o.timestamp <= r.timestamp

\* the names the spec has addCategory and updateCategory refuse
RefusedName(name) == trim(name) = <<>> \/ toLowerCase(name) = StrAll

(* C20: addCategory(name, limit) and updateCategory(id, name, limit) fail  *)
(* (null / false) and change no category when the name is empty after      *)
(* trimming or equals 'all' ignoring case; updateCategory with an id that  *)
(* matches no category returns false and changes nothing; on success the   *)
(* stored name is the trimmed name.                                        *)
C20_CategoryNamesValidated ==
    \A p \in Procs :
        /\ (Done(p, "addCategory") /\ RefusedName(call[p].name))
              => ~ret[p].ok /\ db = Pre(p)
        /\ (Done(p, "updateCategory")
              /\ (RefusedName(call[p].name) \/ call[p].id \notin CategoryIds(Pre(p))))
              => ~ret[p].ok /\ db = Pre(p)
        /\ (Done(p, "addCategory") /\ ret[p].ok)
              => /\ ret[p].val[1].name = trim(call[p].name)
                 /\ ret[p].val[1] \in db.cats \ Pre(p).cats
                 /\ db.cats \ {ret[p].val[1]} = Pre(p).cats
        /\ (Done(p, "updateCategory") /\ ret[p].ok)
              => /\ \E c \in db.cats : c.id = call[p].id /\ c.name = trim(call[p].name)
                 /\ {c \in db.cats : c.id # call[p].id} = {c \in Pre(p).cats : c.id # call[p].id}

\* a category added under a padded name is stored trimmed, and a later
\* rename of it to 'ALL' is refused
C20_Witness ==
    /\ Done(1, "updateCategory") /\ call[1].id = FirstNewCategoryId
    /\ call[1].name = StrAllUpper
    /\ ~ret[1].ok /\ db = Pre(1)
    /\ \E c \in db.cats : c.id = FirstNewCategoryId /\ c.name = StrFun

(* C21: no two categories have the same name (exact comparison) and no    *)
(* two have the same id; addCategory with a name that exists returns null, *)
(* updateCategory renaming a category to another category's name returns   *)
(* false, and in both cases the category table is unchanged.               *)
C21_CategoryNamesAndIdsUnique ==
    /\ \A c1, c2 \in db.cats : (c1.name = c2.name \/ c1.id = c2.id) => c1 = c2
    /\ \A p \in Procs :
          /\ (Done(p, "addCategory") /\ \E c \in Pre(p).cats : c.name = trim(call[p].name))
                => ~ret[p].ok /\ db.cats = Pre(p).cats
          /\ (Done(p, "updateCategory")
                /\ \E c \in Pre(p).cats : c.id # call[p].id /\ c.name = trim(call[p].name))
                => ~ret[p].ok /\ db.cats = Pre(p).cats

\* a category 'Rent' has been added and renaming Groceries to 'Rent' is refused
C21_Witness ==
    /\ Done(1, "updateCategory") /\ call[1].id = GroceriesId /\ call[1].name = StrRent
    /\ \E c \in Pre(1).cats : c.id = FirstNewCategoryId /\ c.name = StrRent
    /\ ~ret[1].ok /\ db.cats = Pre(1).cats

(* C24: between operations, after any sequence of ledger calls and of     *)
(* addCategory, updateCategory (renames included) and deleteCategory, with *)
(* no updateBalance, each balance equals the sum of effects of the         *)
(* existing transactions of its method, the effect being computed from the *)
(* category's current name.                                                *)
C24_BalanceFollowsCategoryNames ==
    AllQuiet => \A m \in Methods : Drift(db)[m] = 0

(* C25: in every reachable state exactly one category has a name equal to  *)
(* 'gain' ignoring case, so addCategory and updateCategory cannot create a *)
(* second category that the ledger treats as a gain category.              *)
C25_SingleGainCategory ==
    Cardinality({c \in db.cats : c.name \in GainSpellings}) = 1

\* the rows a call has added to the log
Inserted(p) == db.txs \ Pre(p).txs

(* C22: generateTestDataForMonth never debits or inserts an expense whose  *)
(* amount exceeds the balance of its method at the moment it is processed; *)
(* such an item is skipped, the call goes on and returns true when no      *)
(* statement fails; a balance that is non-negative before the call is not  *)
(* negative after it.                                                      *)
C22_GeneratorSkipsUnaffordable ==
    \A p \in Procs :
        /\ pc[p] = "gen_debit"
              => LET transData == Head(loc[p].transactionsToAdd)
                 IN  transData.amount <= db.bal[transData.paymentMethod]
        /\ Done(p, "generateTestDataForMonth")
              => /\ failed[p] = "" => ret[p].ok
                 /\ Cardinality(Inserted(p)) <= call[p].count
                 /\ ret[p].ok => \A m \in Methods : Pre(p).bal[m] >= 0 => db.bal[m] >= 0

\* of two items on an empty balance the expense was skipped and the gain
\* that followed it was inserted
C22_Witness ==
    /\ Done(1, "generateTestDataForMonth") /\ ret[1].ok /\ call[1].count = 2
    /\ Pre(1).bal["gpay"] = 0 /\ Pre(1).txs = {}
    /\ db.bal["gpay"] = GainAmountMin
    /\ \E t \in db.txs : db.txs = {t} /\ t.categoryId = GainId

(* C23: when generateTestDataForMonth returns true each balance has        *)
(* changed by exactly the sum of effects of the rows it inserted for that  *)
(* method; when a step fails it returns false and neither a row nor a      *)
(* balance change remains.                                                 *)
C23_GeneratorBatchAtomic ==
    \A p \in Procs :
        Done(p, "generateTestDataForMonth")
            => /\ ret[p].ok =>
                     /\ Pre(p).txs \subseteq db.txs
                     /\ \A m \in Methods :
                           db.bal[m] - Pre(p).bal[m]
                               = SumOf(db, {t \in Inserted(p) : t.paymentMethod = m})
               /\ failed[p] # "" => ~ret[p].ok
               /\ ~ret[p].ok => db = Pre(p) /\ ~InTxn

\* a batch of a gain and an expense failed at its COMMIT after both rows
\* had been written
C23_Witness ==
    /\ Done(1, "generateTestDataForMonth") /\ ~ret[1].ok /\ call[1].count = 2
    /\ failed[1] = "gen_commit"
    /\ db = Pre(1)

(* C26: every transaction stored in the log has amount > 0 after any      *)
(* sequence of the add form (handleAddNewTransaction -> addTransaction)    *)
(* and the edit form (handleSaveChanges -> updateTransaction): an add or   *)
(* an update with a zero or negative amount is refused and changes         *)
(* nothing.                                                                *)
C26_StoredAmountsPositive ==
    /\ \A t \in db.txs : t.amount > 0
    /\ \A p \in Procs :
          (pc[p] = "done" /\ call[p].op \in {"addTransaction", "updateTransaction"}
             /\ call[p].data.amount <= 0)
              => ~ret[p].ok /\ db = Pre(p)

\* the rows of the log that fall in the month the analyzer was opened for
MonthRows(p) ==
    {r \in Joined(db) :
        r.timestamp \div (MonthDays * DayMs)
            = (call[p].selectedYear - 1970) * 12 + call[p].selectedMonth}

\* the rows the ledger applied as +amount: category named 'gain', any case
LedgerGains(rows) == {r \in rows : r.categoryName \in GainSpellings}

RECURSIVE SumAmounts(_)
SumAmounts(rows) ==
    IF rows = {} THEN 0
    ELSE LET r == CHOOSE x \in rows : TRUE IN r.amount + SumAmounts(rows \ {r})

Screen(p) == ret[p].val[1]

(* C27: once the Gain category id has been fetched, the analyzer counts a  *)
(* transaction of the month as income exactly when its category name is    *)
(* 'gain' ignoring case, as the ledger does, and as expense otherwise, and *)
(* totalIncome + totalExpenses is the sum of the amounts of the month's    *)
(* transactions.                                                           *)
C27_AnalyzerPartitionMatchesLedger ==
    \A p \in Procs :
        (Done(p, "fetchData") /\ failed[p] = "" /\ loc[p].gainCategoryId # None
           /\ call[p].excludedCategoryIds = {} /\ db = Pre(p))
            => /\ Screen(p).totalIncome = SumAmounts(LedgerGains(MonthRows(p)))
               /\ Screen(p).totalExpenses = SumAmounts(MonthRows(p) \ LedgerGains(MonthRows(p)))
               /\ Screen(p).totalIncome + Screen(p).totalExpenses = SumAmounts(MonthRows(p))

(* C28: with a non-empty set of excluded categories fetchData skips only   *)
(* the transactions of excluded categories and completes: totals, daily    *)
(* sums and per-category sums are those of the month's other transactions  *)
(* and the loading flag is cleared.                                        *)
C28_ExcludedCategoriesSkipped ==
    \A p \in Procs :
        (Done(p, "fetchData") /\ failed[p] = "" /\ loc[p].gainCategoryId # None
           /\ call[p].excludedCategoryIds # {} /\ db = Pre(p))
            => LET kept == {r \in MonthRows(p) : r.categoryId \notin call[p].excludedCategoryIds}
                   spent == {r \in kept : r.categoryId # loc[p].gainCategoryId[1]}
               IN  /\ ~Screen(p).isLoading
                   /\ Screen(p).totalIncome = SumAmounts(kept \ spent)
                   /\ Screen(p).totalExpenses = SumAmounts(spent)
                   /\ \A r \in spent :
                         /\ DayOfMonth(r.timestamp) \in DOMAIN Screen(p).dailyExpenses
                         /\ r.categoryName \in DOMAIN Screen(p).categoryExpenses
                   /\ \A day \in DOMAIN Screen(p).dailyExpenses :
                         Screen(p).dailyExpenses[day]
                             = SumAmounts({r \in spent : DayOfMonth(r.timestamp) = day})
                   /\ \A name \in DOMAIN Screen(p).categoryExpenses :
                         Screen(p).categoryExpenses[name].amount
                             = SumAmounts({r \in spent : r.categoryName = name})

\* a time lies in the given calendar month
InMonth(timestamp, year, month) ==
    LET m == timestamp \div (MonthDays * DayMs)
    IN  1970 + (m \div 12) = year /\ (m % 12) + 1 = month

(* C29: in getAllTransactions the year/month restriction is applied        *)
(* exactly when neither startDate nor endDate is supplied; when applied it *)
(* restricts the result to the timestamps of that calendar month, first to *)
(* last millisecond; when a startDate or an endDate is supplied the year   *)
(* and month fields have no effect on the result.                          *)
C29_MonthIsFallbackOnly ==
    (Done(1, "getAllTransactions") /\ failed[1] = "")
        => LET filters == call[1].filters
               fallback == /\ filters.startDate = None /\ filters.endDate = None
                           /\ filters.year # None /\ filters.month # None
           IN  ListedSet(1)
                 = {r \in Joined(db) :
                       /\ fallback => InMonth(r.timestamp, filters.year[1], filters.month[1])
                       /\ Satisfies(r, filters)}

\* process p is past 'await getDbInstance()' and inside its handler
Touching(p) == pc[p] \notin {"idle", "done", "getDbInstance"}

\* the initialization has been started and has neither returned nor thrown
Initializing ==
    boot.at \in {"init_drop", "init_create", "init_begin", "init_seed", "init_balances",
                 "init_commit", "init_rollback", "init_verify"}

(* C30: database initialization runs at most once per process even when    *)
(* several operations are issued before it has completed: the tables are   *)
(* dropped at most once, every caller waits for the one initialization     *)
(* promise, no operation touches a table or has completed successfully     *)
(* before the initialization has committed its seeding, the promise        *)
(* resolves over exactly the seeded tables (the default categories with    *)
(* 'Uncategorized' and 'Gain', one balance row per method with amount 0,   *)
(* no transaction), and the tables are never dropped once the promise has  *)
(* resolved, so no committed transaction is erased by a re-run.            *)
C30_InitializedOnce ==
    /\ [](/\ boot.drops <= 1
          /\ Initializing => boot.initializationPromise = "pending"
          /\ \A p \in Procs : Touching(p) => boot.initializationPromise = "resolved"
          /\ boot.initializationPromise # "resolved"
                => \A p \in Procs : ~(pc[p] = "done" /\ ret[p].ok)
          /\ boot.initializationPromise = "resolved"
                => /\ boot.at = "done"
                   /\ db.cats = InitDb.cats
                   /\ DOMAIN db.bal = Methods)
    /\ [][/\ (boot.initializationPromise # "resolved" /\ boot'.initializationPromise = "resolved")
                => db' = InitDb
          /\ boot.initializationPromise = "resolved"
                => (boot'.initializationPromise = "resolved" /\ boot'.drops = boot.drops)]_vars

\* both callers issued their add before the seeding had committed, over
\* tables an earlier run left behind; the tables were dropped once and
\* both adds are in the log
C30_Witness ==
    /\ boot.drops = 1 /\ boot.initializationPromise = "resolved"
    /\ \A p \in Procs :
          /\ Done(p, "addTransaction") /\ ret[p].ok
          /\ Pre(p) = AfterAdd(InitDb, FirstRow)
          /\ Added(p) \in db.txs
    /\ Cardinality(db.txs) = 2

============================================================================
